---- MODULE Spec2Model ----
(***************************************************************************)
(* Model of the WUSA schedule dashboard (src/app.py, src/load_data.py):    *)
(* the games table, the Edit Game save handler with its audit trail, the   *)
(* Full Schedule inline Comment edit, the change-history reader and the    *)
(* bulk import.  Each browser session runs the script in its own thread,   *)
(* so the steps of one script run interleave with those of another at      *)
(* every database access and clock read.                                   *)
(***************************************************************************)
EXTENDS Integers, Sequences, FiniteSets, TLC

\* ------------------------------------------------------------------ bounds

\* Wall-clock seconds the model lets pass (time.time() / datetime.now()).
MaxClock == 2
\* Edit Game script runs with the form submitted, over all sessions.
MaxEdits == 2
\* Full Schedule script runs whose data_editor holds an edited Comment.
MaxInlineEdits == 1
\* Runs of load_data.py after the first one.
MaxImports == 1
\* Lines of a stored audit trail handed to the history reader.
MaxLines == 3
\* Years, from 2024 on, whose dates are handed to the calculator.
MaxYears == 4
\* Characters of a value handed to add_audit_entry.
MaxText == 2
\* Edit Game submissions of the session that visits every page.
MaxPageEdits == 1

\* ------------------------------------------------------------ value helpers

\* Python's None / SQL NULL, as read by pd.read_sql from a TEXT column.
None == "<None>"

Digits == <<"0", "1", "2", "3", "4", "5", "6", "7", "8", "9">>

\* str(n) for the integers the Week and Daycode columns hold.
IntStr(n) ==
    IF n < 10 THEN Digits[n + 1]
    ELSE Digits[(n \div 10) + 1] \o Digits[(n % 10) + 1]

\* str(value) of a TEXT column's value, as add_audit_entry and the form
\* defaults apply it: a text is itself, None is the text "None".
Str(v) == IF v = None THEN "None" ELSE v

\* --------------------------------------------------------------- calendar

\* What pd.to_datetime makes of the "Game Date" texts of the schedule:
\* <<year, month, day>>, or <<>> for a text that gives no date: "TBD" makes
\* pd.to_datetime raise, "NaT" gives NaT, whose isocalendar() raises.
DateText ==
    [ d \in {"Monday, September 29, 2025", "Wednesday, October 8, 2025",
             "Monday, December 29, 2025", "TBD", "NaT"} |->
        CASE d = "Monday, September 29, 2025" -> <<2025, 9, 29>>
          [] d = "Wednesday, October 8, 2025" -> <<2025, 10, 8>>
          [] d = "Monday, December 29, 2025"  -> <<2025, 12, 29>>
          [] OTHER -> <<>> ]

IsLeap(y) == (y % 4 = 0 /\ y % 100 # 0) \/ y % 400 = 0

DaysInMonth(y, m) ==
    IF m = 2 THEN (IF IsLeap(y) THEN 29 ELSE 28)
    ELSE IF m \in {4, 6, 9, 11} THEN 30 ELSE 31

RECURSIVE DaysBeforeMonth(_, _)
DaysBeforeMonth(y, m) ==
    IF m = 1 THEN 0 ELSE DaysBeforeMonth(y, m - 1) + DaysInMonth(y, m - 1)

\* Days before January 1st of year y (proleptic Gregorian ordinal - 1).
DaysBeforeYear(y) ==
    LET p == y - 1 IN p * 365 + (p \div 4) - (p \div 100) + (p \div 400)

Ordinal(y, m, d) == DaysBeforeYear(y) + DaysBeforeMonth(y, m) + d

\* ISO weekday, Monday = 1 ... Sunday = 7 (ordinal 1 is a Monday).
IsoWeekday(y, m, d) == ((Ordinal(y, m, d) + 6) % 7) + 1

\* Ordinal of the Monday that starts ISO week 1 of year y.
IsoWeek1Monday(y) ==
    LET firstDay == Ordinal(y, 1, 1)
        firstWeekday == (firstDay + 6) % 7
        weekStart == firstDay - firstWeekday
    IN IF firstWeekday > 3 THEN weekStart + 7 ELSE weekStart

\* Variant: the week is counted in sevens from January 1st.
isocalendar_from_january(y, m, d) ==
    <<y, ((Ordinal(y, m, d) - Ordinal(y, 1, 1)) \div 7) + 1, IsoWeekday(y, m, d)>>

\* date.isocalendar(): <<ISO year, ISO week, ISO weekday>>.
isocalendar(y, m, d) ==
    LET today == Ordinal(y, m, d)
        w0 == (today - IsoWeek1Monday(y)) \div 7
        day == IsoWeekday(y, m, d)
    IN IF today < IsoWeek1Monday(y)
         THEN <<y - 1, ((today - IsoWeek1Monday(y - 1)) \div 7) + 1, day>>
       ELSE IF w0 >= 52 /\ today >= IsoWeek1Monday(y + 1)
         THEN <<y + 1, 1, day>>
       ELSE <<y, w0 + 1, day>>

\* week_number and daycode of a parsed date: isocalendar()[1] and [2].
week_and_daycode(date_obj) ==
    LET iso == isocalendar(date_obj[1], date_obj[2], date_obj[3])
    IN <<iso[2], iso[3]>>

\* Variant: the defaults returned for a text that does not parse are the
\* first week and the first day.
calculate_week_and_daycode_from_one(game_date_str) ==
    LET date_obj == IF game_date_str \in DOMAIN DateText
                      THEN DateText[game_date_str] ELSE <<>>
    IN IF date_obj = <<>> THEN <<1, 1>>
       ELSE week_and_daycode(date_obj)

\* calculate_week_and_daycode(game_date_str): <<week_number, daycode>>, and
\* <<0, 0>> when the text does not parse (the bare except).
calculate_week_and_daycode(game_date_str) ==
    LET date_obj == IF game_date_str \in DOMAIN DateText
                      THEN DateText[game_date_str] ELSE <<>>
    IN IF date_obj = <<>> THEN <<0, 0>>
       ELSE week_and_daycode(date_obj)

\* ------------------------------------------------------------ the schedule

Sessions == {"A", "B"}

\* The game numbers of the schedule.
GameNums == {1, 2}

\* The rows of test_schedule.csv as df.to_sql stores them (no key constraint,
\* no audit columns): an empty cell is NULL, Week is the scheduler's week.
CsvRow1 ==
    [GameNum |-> 1, Division |-> "10U",
     GameDate |-> "Monday, September 29, 2025", Field |-> "SC1",
     Time |-> "6:00 PM", Home |-> "Aliens", Away |-> "Bears",
     Status |-> "Scheduled", Week |-> 5, Daycode |-> 1,
     Comment |-> None, OriginalDate |-> None,
     game_audit_trail |-> <<>>, last_updated |-> 0]

CsvRow2 ==
    [GameNum |-> 2, Division |-> "12U",
     GameDate |-> "Wednesday, October 8, 2025", Field |-> "SC1",
     Time |-> "6:00 PM", Home |-> "Aliens", Away |-> "Bears",
     Status |-> "Scheduled", Week |-> 41, Daycode |-> 3,
     Comment |-> "Makeup", OriginalDate |-> None,
     game_audit_trail |-> <<>>, last_updated |-> 0]

\* The schedule files the scheduler hands over: the full one, and a later
\* one from which game 1 has been dropped.
CsvFull == <<CsvRow1, CsvRow2>>
CsvShort == <<CsvRow2>>

\* A schedule whose second game has the text "NaT" for its date: read_csv
\* keeps the text, and load_games' pd.to_datetime turns it into NaT.
CsvUndated ==
    <<CsvRow1, [CsvRow2 EXCEPT !.GameDate = "NaT", !.Week = 0, !.Daycode = 0]>>

\* Texts an editor types into the Comment input, and into the Original Date
\* input (which the editors of this model leave as the form shows it).
CommentTexts == {"Rainout"}
OriginalDateTexts == {}

\* The rows of the cached table that the sessions open in the Edit Game
\* form; the other rows supply the selectboxes' options.
OpenedRows == {1}

\* ---------------------------------------------------------- audit entries

AuditKeys == {"timestamp", "field", "old_value", "new_value"}

\* add_audit_entry(game_number, field_name, old_value, new_value): the
\* json.dumps of the entry, one line of the trail.  now is datetime.now()
\* to the second; old_value and new_value arrive already passed through
\* str().
add_audit_entry(game_number, field_name, old_value, new_value, now) ==
    [json |-> "object", keys |-> AuditKeys, timestamp |-> now,
     field |-> field_name, old_value |-> old_value, new_value |-> new_value]

\* ------------------------------------------------------------------ state

VARIABLES
    games,        \* table games of wusa_schedule.db, by rowid
    audit_cols,   \* the table has game_audit_trail and last_updated columns
    df,           \* st.cache_data of load_games()
    clock,        \* the server's clock, in seconds
    run,          \* per session: the Edit Game script run in progress
    history,      \* per session: the change history last displayed
    edits,        \* Edit Game submissions so far
    inline_edits, \* Full Schedule comment saves so far
    imports,      \* runs of load_data.py after the first
    applied,      \* per game number: the entries of its committed updates
    calendar,     \* the last calls of the week and daycode calculation
    codec,        \* an audit entry on its way into a trail and back
    settings,     \* table settings of wusa_schedule.db
    got,          \* the last get_setting call and what it returned
    pragmas,      \* header of wusa_schedule.db: the values PRAGMA statements set
    pages         \* per session: st.session_state and the admin page last run

vars == <<games, audit_cols, df, clock, run, history, edits, inline_edits,
          imports, applied, calendar, codec, settings, got, pragmas, pages>>

NoForm ==
    [new_game_date |-> "", new_field |-> "", new_time |-> "", new_home |-> "",
     new_away |-> "", new_status |-> "", new_comment |-> "",
     new_original_date |-> ""]

IdleRun ==
    [pc |-> "idle", game_num |-> 0, selected_game |-> CsvRow1, form |-> NoForm,
     audit_entries |-> <<>>, changes_for_email |-> <<>>,
     new_week |-> 0, new_daycode |-> 0, new_audit_trail |-> <<>>,
     current_timestamp |-> 0, rowcount |-> 0, message |-> "none",
     error |-> "", emailed |-> FALSE]

NoHistory == [shown |-> FALSE, raised |-> FALSE, rows |-> <<>>]

NoCache == [loaded |-> FALSE, rows |-> <<>>]

NoCalendar == [date |-> <<2025, 9, 29>>, result |-> <<>>, previous |-> <<>>]

NoCodec ==
    [step |-> "idle", field_name |-> "", old_value |-> <<>>, new_value |-> <<>>,
     now |-> 0, existing_audit |-> <<>>, token |-> <<>>, audit_trail |-> <<>>,
     audit_data |-> <<>>]

\* The keys of the settings table the app uses, and a key it never sets.
SettingKeys == {"email_from_address", "email_to_addresses", "other"}

\* No row for the key.
Absent == "<absent>"

\* wusa_schedule.db before the app has run: no settings table.
NoSettings == [exists |-> FALSE, rows |-> [k \in SettingKeys |-> Absent]]

\* got.set_values keeps, per key, the value of the last set_setting call
\* that returned True.
NoGot ==
    [called |-> FALSE, key |-> "", default |-> "", value |-> "",
     set_values |-> [k \in SettingKeys |-> Absent]]

\* The database header as sqlite3 creates the file: user_version 0.
NoPragmas == [user_version |-> 0]

\* A session before any admin page has run: st.session_state holds no
\* admin_authenticated (read as False), no page body has run, the Data
\* Query Tool has been handed no query and the Settings form has not been
\* submitted.
NoPage ==
    [admin_authenticated |-> FALSE, body |-> "", query |-> <<>>,
     outcome |-> "", from_address |-> "", to_addresses |-> "",
     returned |-> <<>>, password |-> ""]

\* The session's record when a script run begins: st.session_state is
\* kept, what the last run displayed is gone.
NewRun(s) == [NoPage EXCEPT !.admin_authenticated = pages[s].admin_authenticated]

\* The settings table as the first script run of the app leaves it.
DefaultSettings ==
    [exists |-> TRUE,
     rows |-> [k \in SettingKeys |->
                 IF k = "email_from_address" THEN ""
                 ELSE IF k = "email_to_addresses" THEN "jpowers@gmail.com"
                 ELSE Absent]]

\* The same helpers in a database the app has been run on.
HelpersStarted ==
    /\ calendar = NoCalendar
    /\ codec = NoCodec
    /\ settings = DefaultSettings
    /\ got = NoGot
    /\ pragmas = NoPragmas
    /\ pages = [s \in Sessions |-> NoPage]

\* The calculator, the entry codec and the settings store before any use.
HelpersIdle ==
    /\ calendar = NoCalendar
    /\ codec = NoCodec
    /\ settings = NoSettings
    /\ got = NoGot
    /\ pragmas = NoPragmas
    /\ pages = [s \in Sessions |-> NoPage]

TableOf(csv) == [i \in DOMAIN csv |-> csv[i]]

Init ==
    /\ games = TableOf(CsvFull)
    /\ audit_cols = FALSE
    /\ df = NoCache
    /\ clock = 1
    /\ run = [s \in Sessions |-> IdleRun]
    /\ history = [s \in Sessions |-> NoHistory]
    /\ edits = 0
    /\ inline_edits = 0
    /\ imports = 0
    /\ applied = [n \in GameNums |-> <<>>]
    /\ HelpersIdle

\* ------------------------------------------------------- script run start

\* ensure_settings_table(): CREATE TABLE IF NOT EXISTS settings, and the
\* two default rows where the key has no row.
ensure_settings_table ==
    [exists |-> TRUE,
     rows |-> [k \in SettingKeys |->
                 IF settings.exists /\ settings.rows[k] # Absent
                   THEN settings.rows[k]
                 ELSE IF k = "email_from_address" THEN ""
                 ELSE IF k = "email_to_addresses" THEN "jpowers@gmail.com"
                 ELSE Absent]]

\* load_games(): SELECT * FROM games, kept by st.cache_data until cleared.
load_games == IF df.loaded THEN df ELSE [loaded |-> TRUE, rows |-> games]

\* Values of one column over the cached table, NULLs dropped (dropna()).
Options(rows, col) == {rows[i][col] : i \in DOMAIN rows} \ {None}

\* Rowids of the rows WHERE "Game #" = game_num.
RowsWhere(rows, game_num) == {i \in DOMAIN rows : rows[i].GameNum = game_num}

Min(S) == CHOOSE x \in S : \A y \in S : x <= y

\* The values the Edit Game form can be submitted with: every selectbox
\* offers the cached column's values, the two text inputs start from
\* str() of the selected game's value and take any typed text.
FormValues(rows, selected_game) ==
    [new_game_date : Options(rows, "GameDate"),
     new_field : Options(rows, "Field"),
     new_time : Options(rows, "Time"),
     new_home : Options(rows, "Home"),
     new_away : Options(rows, "Away"),
     new_status : Options(rows, "Status"),
     new_comment : {Str(selected_game.Comment)} \cup CommentTexts,
     new_original_date : {Str(selected_game.OriginalDate)} \cup OriginalDateTexts]

\* ---------------------------------------------------- Edit Game: the save

\* Variant: the reload selects the schedule's columns alone, and the row
\* carries an empty trail and no last_updated.
ReloadGameScheduleColumns(cached_row) ==
    LET current_game_df == RowsWhere(games, cached_row.GameNum)
    IN IF current_game_df # {}
         THEN [games[Min(current_game_df)] EXCEPT !.game_audit_trail = <<>>,
                                                  !.last_updated = 0]
         ELSE cached_row

\* Reload of the selected game: the row read from the database, or the
\* cached row when the database has none.
ReloadGame(cached_row) ==
    LET current_game_df == RowsWhere(games, cached_row.GameNum)
    IN IF current_game_df # {} THEN games[Min(current_game_df)] ELSE cached_row

\* A script run of the Edit Game page with the form submitted begins: the
\* migration (ensure_audit_trail_column), the cached table, the selected
\* game and the form's values.
ReadSelectedGame(s) ==
    /\ run[s].pc = "idle"
    /\ edits < MaxEdits
    /\ audit_cols' = TRUE
    /\ settings' = ensure_settings_table
    /\ df' = load_games
    /\ \E selected_idx \in OpenedRows \cap DOMAIN df'.rows :
         LET selected_game == ReloadGame(df'.rows[selected_idx])
         IN \E form \in FormValues(df'.rows, selected_game) :
              run' = [run EXCEPT ![s] =
                        [IdleRun EXCEPT !.pc = "submitted",
                                        !.game_num = selected_game.GameNum,
                                        !.selected_game = selected_game,
                                        !.form = form]]
    /\ edits' = edits + 1
    /\ UNCHANGED <<games, clock, history, inline_edits, imports, applied,
                   calendar, codec, got,
                   pragmas, pages>>

\* One "if new != current: audit_entries.append(...)" block.
Change(differs, item) == IF differs THEN <<item>> ELSE <<>>

\* Variant: the pair is recalculated only when the Game Date was changed.
RecalculateIfDateChanged(form, selected_game) ==
    IF form.new_game_date = selected_game.GameDate
      THEN <<selected_game.Week, selected_game.Daycode>>
      ELSE calculate_week_and_daycode(form.new_game_date)

\* Recalculation of Week and Daycode from the submitted Game Date.
Recalculate(form, selected_game) ==
    calculate_week_and_daycode(form.new_game_date)

\* The audit_entries list of one save, every entry stamped now.
AuditEntries(n, g, f, new_week, new_daycode, now) ==
    Change(f.new_game_date # g.GameDate,
           add_audit_entry(n, "Game Date", Str(g.GameDate), Str(f.new_game_date), now))
    \o Change(f.new_field # g.Field,
           add_audit_entry(n, "Field", Str(g.Field), Str(f.new_field), now))
    \o Change(f.new_time # g.Time,
           add_audit_entry(n, "Time", Str(g.Time), Str(f.new_time), now))
    \o Change(f.new_home # g.Home,
           add_audit_entry(n, "Home Team", Str(g.Home), Str(f.new_home), now))
    \o Change(f.new_away # g.Away,
           add_audit_entry(n, "Away Team", Str(g.Away), Str(f.new_away), now))
    \o Change(f.new_status # g.Status,
           add_audit_entry(n, "Status", Str(g.Status), Str(f.new_status), now))
    \o Change(f.new_comment # Str(g.Comment),
           add_audit_entry(n, "Comment", Str(g.Comment), Str(f.new_comment), now))
    \o Change(f.new_original_date # Str(g.OriginalDate),
           add_audit_entry(n, "Original Date", Str(g.OriginalDate),
                           Str(f.new_original_date), now))
    \o Change(new_week # g.Week,
           add_audit_entry(n, "Week (auto-calculated)", IntStr(g.Week),
                           IntStr(new_week), now))
    \o Change(new_daycode # g.Daycode,
           add_audit_entry(n, "Daycode (auto-calculated)", IntStr(g.Daycode),
                           IntStr(new_daycode), now))

\* The changes_for_email list of one save: (field_name, old_value, new_value).
ChangesForEmail(g, f, new_week, new_daycode) ==
    Change(f.new_game_date # g.GameDate, <<"Game Date", g.GameDate, f.new_game_date>>)
    \o Change(f.new_field # g.Field, <<"Field", g.Field, f.new_field>>)
    \o Change(f.new_time # g.Time, <<"Time", g.Time, f.new_time>>)
    \o Change(f.new_home # g.Home, <<"Home Team", g.Home, f.new_home>>)
    \o Change(f.new_away # g.Away, <<"Away Team", g.Away, f.new_away>>)
    \o Change(f.new_status # g.Status, <<"Status", g.Status, f.new_status>>)
    \o Change(f.new_comment # Str(g.Comment), <<"Comment", g.Comment, f.new_comment>>)
    \o Change(f.new_original_date # Str(g.OriginalDate),
              <<"Original Date", g.OriginalDate, f.new_original_date>>)
    \o Change(new_week # g.Week, <<"Week (auto-calculated)", g.Week, new_week>>)
    \o Change(new_daycode # g.Daycode,
              <<"Daycode (auto-calculated)", g.Daycode, new_daycode>>)

\* The clock may pass a second between two add_audit_entry calls: the
\* entries after the first k carry the later reading.
Stamped(entries, k, later) ==
    [i \in DOMAIN entries |->
        IF i > k THEN [entries[i] EXCEPT !.timestamp = later] ELSE entries[i]]

\* SELECT game_audit_trail ... fetchone(): the stored trail of the first
\* matching row, "" when there is no row or the value is NULL or ''.
ExistingAudit(game_num) ==
    LET result_rows == RowsWhere(games, game_num)
    IN IF result_rows # {} THEN games[Min(result_rows)].game_audit_trail ELSE <<>>

\* Variant: the new entries are put in front of the existing trail.
AppendAuditFirst(existing_audit, audit_entries) ==
    IF audit_entries # <<>> THEN audit_entries \o existing_audit
    ELSE existing_audit

\* Variant: the new entries replace the trail instead of extending it.
AppendAuditOverwrites(existing_audit, audit_entries) ==
    IF audit_entries # <<>> THEN audit_entries ELSE existing_audit

\* new_audit_trail: the new entries joined onto the existing trail, one
\* line each.
AppendAudit(existing_audit, audit_entries) ==
    IF audit_entries # <<>> THEN existing_audit \o audit_entries
    ELSE existing_audit

\* The submitted form is compared with the selected game, the stored trail
\* is read and extended, and the epoch timestamp is taken.
DetectChanges(s) ==
    /\ run[s].pc = "submitted"
    /\ audit_cols
    /\ LET r == run[s]
           wd == Recalculate(r.form, r.selected_game)
           entries == AuditEntries(r.game_num, r.selected_game, r.form,
                                   wd[1], wd[2], clock)
       IN \E k \in 0..Len(entries) :
            /\ k < Len(entries) => clock < MaxClock
            /\ clock' = IF k < Len(entries) THEN clock + 1 ELSE clock
            /\ run' = [run EXCEPT ![s] =
                 [r EXCEPT !.pc = "update",
                           !.audit_entries = Stamped(entries, k, clock + 1),
                           !.changes_for_email =
                               ChangesForEmail(r.selected_game, r.form, wd[1], wd[2]),
                           !.new_week = wd[1],
                           !.new_daycode = wd[2],
                           !.new_audit_trail =
                               AppendAudit(ExistingAudit(r.game_num),
                                           Stamped(entries, k, clock + 1)),
                           !.current_timestamp =
                               IF k < Len(entries) THEN clock + 1 ELSE clock]]
    /\ UNCHANGED <<games, audit_cols, df, history, edits, inline_edits,
                   imports, applied,
                   calendar, codec, settings, got,
                   pragmas, pages>>

\* Variant: the UPDATE has no WHERE clause.
UpdateGamesEveryRow(rows, r) ==
    [i \in DOMAIN rows |->
        [rows[i] EXCEPT !.GameDate = r.form.new_game_date,
                        !.Field = r.form.new_field,
                        !.Time = r.form.new_time,
                        !.Home = r.form.new_home,
                        !.Away = r.form.new_away,
                        !.Status = r.form.new_status,
                        !.Week = r.new_week,
                        !.Daycode = r.new_daycode,
                        !.Comment = r.form.new_comment,
                        !.OriginalDate = r.form.new_original_date,
                        !.game_audit_trail = r.new_audit_trail,
                        !.last_updated = r.current_timestamp]]

\* Variant: only the columns whose submitted value differs from the
\* selected game are written.
UpdateChangedColumns(rows, r) ==
    [i \in DOMAIN rows |->
        IF rows[i].GameNum = r.game_num
          THEN [rows[i] EXCEPT
                  !.GameDate = IF r.form.new_game_date # r.selected_game.GameDate
                                 THEN r.form.new_game_date ELSE @,
                  !.Comment = IF r.form.new_comment # Str(r.selected_game.Comment)
                                THEN r.form.new_comment ELSE @,
                  !.Week = r.new_week,
                  !.Daycode = r.new_daycode,
                  !.game_audit_trail = r.new_audit_trail,
                  !.last_updated = r.current_timestamp]
          ELSE rows[i]]

\* UPDATE games SET ... WHERE "Game #" = ?: every matching row takes the
\* submitted values, the recalculated Week and Daycode, the new trail and
\* the timestamp.
UpdateGames(rows, r) ==
    [i \in DOMAIN rows |->
        IF rows[i].GameNum = r.game_num
          THEN [rows[i] EXCEPT !.GameDate = r.form.new_game_date,
                               !.Field = r.form.new_field,
                               !.Time = r.form.new_time,
                               !.Home = r.form.new_home,
                               !.Away = r.form.new_away,
                               !.Status = r.form.new_status,
                               !.Week = r.new_week,
                               !.Daycode = r.new_daycode,
                               !.Comment = r.form.new_comment,
                               !.OriginalDate = r.form.new_original_date,
                               !.game_audit_trail = r.new_audit_trail,
                               !.last_updated = r.current_timestamp]
          ELSE rows[i]]

\* Variant: a notification that fails turns the report into an error.
SuccessMessageNeedsEmail(changes_for_email, email_success) ==
    IF changes_for_email # <<>>
      THEN (IF email_success THEN "saved_email_sent" ELSE "error")
      ELSE "no_changes"

\* The message the save reports, after the notification email was tried.
SuccessMessage(changes_for_email, email_success) ==
    IF changes_for_email # <<>>
      THEN (IF email_success THEN "saved_email_sent" ELSE "saved_email_failed")
      ELSE "no_changes"

\* cursor.execute(update_query, ...) and conn.commit() go through (the
\* statement's rows become visible to other connections at the commit),
\* then the notification email is tried when there were changes, the
\* success message is stored, st.cache_data.clear() empties the cache and
\* st.rerun() starts the script run that loads the table again.
SaveChanges(s) ==
    /\ run[s].pc = "update"
    /\ audit_cols
    /\ games' = UpdateGames(games, run[s])
    /\ \E email_success \in BOOLEAN :
         run' = [run EXCEPT ![s] =
            [IdleRun EXCEPT
                !.pc = "saved",
                !.game_num = run[s].game_num,
                !.rowcount = Cardinality(RowsWhere(games, run[s].game_num)),
                !.message = SuccessMessage(run[s].changes_for_email, email_success),
                !.emailed = (run[s].changes_for_email # <<>>)]]
    /\ df' = [loaded |-> TRUE, rows |-> games']
    /\ applied' = IF RowsWhere(games, run[s].game_num) # {}
                    THEN [applied EXCEPT ![run[s].game_num] =
                                             @ \o run[s].audit_entries]
                    ELSE applied
    /\ UNCHANGED <<audit_cols, clock, history, edits, inline_edits, imports,
                   calendar, codec, settings, got,
                   pragmas, pages>>

\* The script run after a save shows the stored message and deletes it
\* from the session state.
Rerun(s) ==
    /\ run[s].pc = "saved"
    /\ run' = [run EXCEPT ![s] = IdleRun]
    /\ UNCHANGED <<games, audit_cols, df, clock, history, edits, inline_edits,
                   imports, applied,
                   calendar, codec, settings, got,
                   pragmas, pages>>

\* Variant: the statement's user columns stay written although the commit
\* did not happen.
RollbackKeepsFields(committed, attempted) ==
    [i \in DOMAIN committed |->
        [committed[i] EXCEPT !.GameDate = attempted[i].GameDate,
                             !.Comment = attempted[i].Comment,
                             !.OriginalDate = attempted[i].OriginalDate]]

\* What the table holds after conn.close() without a commit: the rows
\* as they were before the statement.
Rollback(committed, attempted) == committed

\* str(e) of the exceptions the storage layer raises.
StorageErrors == {"database is locked", "disk I/O error"}

\* Variant: the page shows that the update failed, not why.
ErrorMessageGeneric(e) == "Error updating game"

\* st.error(f"Error updating game: {str(e)}").
ErrorMessage(e) == "Error updating game: " \o e

\* The storage layer raises in cursor.execute or in conn.commit: the except
\* branch closes the connection and shows the error.
StorageFailure(s) ==
    /\ run[s].pc = "update"
    /\ games' = Rollback(games, UpdateGames(games, run[s]))
    /\ \E e \in StorageErrors :
         run' = [run EXCEPT ![s].pc = "failed", ![s].message = "error",
                            ![s].error = ErrorMessage(e)]
    /\ UNCHANGED <<audit_cols, df, clock, history, edits, inline_edits,
                   imports, applied,
                   calendar, codec, settings, got,
                   pragmas, pages>>

\* The script run that showed the error has ended; the error stays on the
\* page until the session's next interaction.
ScriptEnds(s) ==
    /\ run[s].pc = "failed"
    /\ run' = [run EXCEPT ![s] = IdleRun]
    /\ UNCHANGED <<games, audit_cols, df, clock, history, edits, inline_edits,
                   imports, applied,
                   calendar, codec, settings, got,
                   pragmas, pages>>

\* ------------------------------------------- Full Schedule: inline Comment

\* Variant: the table is written back from the changed rows alone.
UpdateCommentsDropsOthers(rows, changed_rows) ==
    LET changed == SelectSeq(rows, LAMBDA row : row.GameNum \in DOMAIN changed_rows)
    IN [i \in DOMAIN changed |->
           [changed[i] EXCEPT !.Comment = changed_rows[changed[i].GameNum]]]

\* Variant: the inline edit also stamps last_updated.
UpdateCommentsStamped(rows, changed_rows) ==
    [i \in DOMAIN rows |->
        IF rows[i].GameNum \in DOMAIN changed_rows
          THEN [rows[i] EXCEPT !.Comment = changed_rows[rows[i].GameNum],
                               !.last_updated = @ + 1]
          ELSE rows[i]]

\* UPDATE games SET "Comment" = ? WHERE "Game #" = ?, for each changed row.
UpdateComments(rows, changed_rows) ==
    [i \in DOMAIN rows |->
        IF rows[i].GameNum \in DOMAIN changed_rows
          THEN [rows[i] EXCEPT !.Comment = changed_rows[rows[i].GameNum]]
          ELSE rows[i]]

\* A script run of the Full Schedule page whose data_editor holds edited
\* Comment cells: the rows that differ from the cached table are written
\* and committed, the cache is cleared and the page reruns.
InlineCommentEdit(s) ==
    /\ run[s].pc = "idle"
    /\ inline_edits < MaxInlineEdits
    /\ audit_cols' = TRUE
    /\ settings' = ensure_settings_table
    /\ LET display_df == load_games.rows
       IN \E nums \in (SUBSET {display_df[i].GameNum : i \in DOMAIN display_df}) \ {{}} :
            \E changed_rows \in [nums -> CommentTexts \cup {None}] :
              /\ \A i \in DOMAIN display_df :
                    display_df[i].GameNum \in nums =>
                        changed_rows[display_df[i].GameNum] # display_df[i].Comment
              /\ games' = UpdateComments(games, changed_rows)
    /\ df' = [loaded |-> TRUE, rows |-> games']
    /\ inline_edits' = inline_edits + 1
    /\ UNCHANGED <<clock, run, history, edits, imports, applied,
                   calendar, codec, got,
                   pragmas, pages>>

\* --------------------------------------- Edit Game: the change history

\* json.loads(line) returns a value for the line.
JsonLoads(line) == line.json = "object"

Reverse(seq) == [i \in DOMAIN seq |-> seq[Len(seq) + 1 - i]]

\* The "Selected Game's Change History" table for a stored trail: the
\* non-blank lines that json.loads accepts, as a DataFrame, most recent
\* first, its four columns selected.  Selecting a column that no loaded
\* line has raises KeyError.
history_for(audit_trail) ==
    LET IsData(line) == line.json # "blank" /\ JsonLoads(line)
        audit_data == SelectSeq(audit_trail, IsData)
        columns == UNION {audit_data[i].keys : i \in DOMAIN audit_data}
    IN IF audit_data = <<>>
         THEN [shown |-> TRUE, raised |-> FALSE, rows |-> <<>>]
       ELSE IF ~(AuditKeys \subseteq columns)
         THEN [shown |-> TRUE, raised |-> TRUE, rows |-> <<>>]
       ELSE [shown |-> TRUE, raised |-> FALSE, rows |-> Reverse(audit_data)]

\* A script run of the Edit Game page without a submission: the selected
\* game's trail is read from the database and displayed.
ViewHistory(s) ==
    /\ run[s].pc = "idle"
    /\ audit_cols' = TRUE
    /\ settings' = ensure_settings_table
    /\ df' = load_games
    /\ \E selected_idx \in OpenedRows \cap DOMAIN df'.rows :
         LET selected_game == ReloadGame(df'.rows[selected_idx])
         IN history' = [history EXCEPT ![s] =
                           history_for(ExistingAudit(selected_game.GameNum))]
    /\ UNCHANGED <<games, clock, run, edits, inline_edits, imports, applied,
                   calendar, codec, got,
                   pragmas, pages>>

\* ------------------------------------------------------- Recent Changes

\* A 'Last Updated' text that pd.to_datetime does not accept.
NotADate == 0 - 1

\* pd.to_datetime(changes_df['Last Updated']) accepts every text of the
\* column (the seconds of the model stand for "%Y-%m-%d %H:%M:%S" texts).
to_datetime(column) == \A i \in DOMAIN column : column[i] # NotADate

\* SELECT * FROM games WHERE game_audit_trail IS NOT NULL AND
\* game_audit_trail != '' ORDER BY last_updated DESC: the rowids, rows of
\* equal last_updated in rowid order.
RECURSIVE EditedGames(_, _)
EditedGames(rows, t) ==
    IF t < 0 THEN <<>>
    ELSE SelectSeq([i \in 1..Len(rows) |-> i],
                   LAMBDA i : rows[i].game_audit_trail # <<>>
                              /\ rows[i].last_updated = t)
         \o EditedGames(rows, t - 1)

\* The all_changes rows of one game: for every non-blank line that
\* json.loads accepts and that has the four keys, the entry with its game.
GameChanges(game) ==
    LET Loaded(line) == line.json = "object" /\ AuditKeys \subseteq line.keys
        lines == SelectSeq(game.game_audit_trail, Loaded)
    IN [k \in DOMAIN lines |->
           [game |-> game.GameNum, timestamp |-> lines[k].timestamp,
            field |-> lines[k].field, old_value |-> lines[k].old_value,
            new_value |-> lines[k].new_value]]

RECURSIVE AllChanges(_, _)
AllChanges(rows, edited) ==
    IF edited = <<>> THEN <<>>
    ELSE GameChanges(rows[Head(edited)]) \o AllChanges(rows, Tail(edited))

\* changes_df.sort_values('timestamp_dt', ascending=False): latest first,
\* rows of equal timestamp in the order all_changes holds them.
RECURSIVE SortDescending(_, _)
SortDescending(changes, t) ==
    IF t < 0 THEN <<>>
    ELSE SelectSeq(changes, LAMBDA c : c.timestamp = t)
         \o SortDescending(changes, t - 1)

\* The Recent Changes table for the stored rows.
history_all(rows) ==
    LET edited_games_df == EditedGames(rows, MaxClock + 1)
        all_changes == AllChanges(rows, edited_games_df)
    IN IF all_changes = <<>>
         THEN [shown |-> TRUE, raised |-> FALSE, rows |-> <<>>]
       ELSE IF ~to_datetime([k \in DOMAIN all_changes |-> all_changes[k].timestamp])
         THEN [shown |-> TRUE, raised |-> TRUE, rows |-> <<>>]
       ELSE [shown |-> TRUE, raised |-> FALSE,
             rows |-> SortDescending(all_changes, MaxClock + 1)]

\* A script run of the Recent Changes page.
ViewRecentChanges(s) ==
    /\ run[s].pc = "idle"
    /\ audit_cols' = TRUE
    /\ settings' = ensure_settings_table
    /\ df' = load_games
    /\ history' = [history EXCEPT ![s] = history_all(games)]
    /\ UNCHANGED <<games, clock, run, edits, inline_edits, imports, applied,
                   calendar, codec, got,
                   pragmas, pages>>

\* ------------------------------------------------------------ bulk import

\* load_data.py: df.to_sql('games', conn, if_exists='replace') drops the
\* table and creates it from the CSV, without the audit columns.  The
\* running app keeps its cached table.
LoadData(csv) ==
    /\ imports < MaxImports
    /\ games' = TableOf(csv)
    /\ audit_cols' = FALSE
    /\ imports' = imports + 1
    /\ applied' = [n \in GameNums |-> <<>>]
    /\ UNCHANGED <<df, clock, run, history, edits, inline_edits,
                   calendar, codec, settings, got,
                   pragmas, pages>>

\* SELECT game_audit_trail raises (no such column) when the table was
\* replaced after this script run's migration: the exception is outside
\* the try block and ends the script run.
SelectRaises(s) ==
    /\ run[s].pc = "submitted"
    /\ ~audit_cols
    /\ run' = [run EXCEPT ![s].pc = "failed", ![s].message = "exception"]
    /\ UNCHANGED <<games, audit_cols, df, clock, history, edits, inline_edits,
                   imports, applied,
                   calendar, codec, settings, got,
                   pragmas, pages>>

\* --------------------------------------------------------- settings store

\* Values a caller stores, and defaults a caller passes.
SettingValues == {"", "a@example.org", "b@example.org"}
SettingDefaults == {"", "jpowers@gmail.com"}

\* Variant: an empty stored value counts as no value.
get_setting_or_default(key, default) ==
    IF settings.exists /\ settings.rows[key] \notin {Absent, ""}
      THEN settings.rows[key]
      ELSE default

\* get_setting(key, default): the value of the key's row; the default when
\* there is no row, or when the SELECT raises because there is no table.
get_setting(key, default) ==
    IF settings.exists /\ settings.rows[key] # Absent
      THEN settings.rows[key]
      ELSE default

\* The start of a script run: the two migrations.
AppStarts ==
    /\ audit_cols' = TRUE
    /\ settings' = ensure_settings_table
    /\ UNCHANGED <<games, df, clock, run, history, edits, inline_edits,
                   imports, applied, calendar, codec, got,
                   pragmas, pages>>

\* A call of get_setting.
GetSetting(key, default) ==
    /\ got' = [got EXCEPT !.called = TRUE, !.key = key, !.default = default,
                          !.value = get_setting(key, default)]
    /\ UNCHANGED <<games, audit_cols, df, clock, run, history, edits,
                   inline_edits, imports, applied, calendar, codec, settings,
                   pragmas, pages>>

\* A call of set_setting: INSERT OR REPLACE and commit, returning True; or
\* the statement raises (always so without the table), nothing is written
\* and the call returns False.  The result of an earlier get_setting is
\* forgotten.
SetSetting(key, value) ==
    \E raises \in BOOLEAN :
       LET done == settings.exists /\ ~raises
       IN /\ settings' = IF done THEN [settings EXCEPT !.rows[key] = value]
                         ELSE settings
          /\ got' = [NoGot EXCEPT !.set_values =
                        IF done THEN [got.set_values EXCEPT ![key] = value]
                        ELSE got.set_values]
          /\ UNCHANGED <<games, audit_cols, df, clock, run, history, edits,
                         inline_edits, imports, applied, calendar, codec,
                   pragmas, pages>>

\* ------------------------------------------------------ audit entry text

\* A text is the sequence of its characters.  The three characters that
\* JSON and the trail's line structure treat specially:
QUOTE == "<quote>"
NEWLINE == "<newline>"
BACKSLASH == "<backslash>"

\* str(value): the digits of an integer, the text itself for a text.
PyStr(value) == IF value.type = "int" THEN <<IntStr(value.int)>> ELSE value.text

\* datetime.now().strftime("%Y-%m-%d %H:%M:%S") of the second now.
strftime(now) == <<IntStr(now)>>

RECURSIVE EscapeKeepsNewline(_)
\* Variant: quotes and backslashes are escaped, a newline is written as it
\* is.
EscapeKeepsNewline(text) ==
    IF text = <<>> THEN <<>>
    ELSE (IF Head(text) \in {QUOTE, BACKSLASH} THEN <<BACKSLASH, Head(text)>>
          ELSE <<Head(text)>>)
         \o EscapeKeepsNewline(Tail(text))

\* json.dumps of a str: the characters with quote, backslash and newline
\* escaped.
RECURSIVE Escape(_)
Escape(text) ==
    IF text = <<>> THEN <<>>
    ELSE (IF Head(text) \in {QUOTE, BACKSLASH} THEN <<BACKSLASH, Head(text)>>
          ELSE IF Head(text) = NEWLINE THEN <<BACKSLASH, "n">>
          ELSE <<Head(text)>>)
         \o Escape(Tail(text))

JsonString(text) == <<QUOTE>> \o Escape(text) \o <<QUOTE>>

\* json.dumps(entry) of the dict add_audit_entry builds.
json_dumps(entry) ==
    <<"{">> \o JsonString(<<"timestamp">>) \o <<":">> \o JsonString(entry.timestamp)
    \o <<",">> \o JsonString(<<"field">>) \o <<":">> \o JsonString(entry.field)
    \o <<",">> \o JsonString(<<"old_value">>) \o <<":">> \o JsonString(entry.old_value)
    \o <<",">> \o JsonString(<<"new_value">>) \o <<":">> \o JsonString(entry.new_value)
    \o <<"}">>

\* The token of one change: add_audit_entry's dict, dumped.
AuditToken(field_name, old_value, new_value, now) ==
    LET entry == add_audit_entry(0, <<field_name>>, PyStr(old_value),
                                 PyStr(new_value), strftime(now))
    IN json_dumps(entry)

\* new_audit_trail as text: the token joined onto the existing trail by a
\* newline.
JoinTrail(existing_audit, token) ==
    IF existing_audit # <<>> THEN existing_audit \o <<NEWLINE>> \o token
    ELSE token

\* str.split('\n').
RECURSIVE Split(_)
Split(text) ==
    IF \A i \in DOMAIN text : text[i] # NEWLINE THEN <<text>>
    ELSE LET i == CHOOSE k \in DOMAIN text :
                     text[k] = NEWLINE /\ \A j \in 1..(k - 1) : text[j] # NEWLINE
         IN <<SubSeq(text, 1, i - 1)>> \o Split(SubSeq(text, i + 1, Len(text)))

NoParse == [ok |-> FALSE, text |-> <<>>, next |-> 0]

\* The JSON decoder on a string whose opening quote is before position i:
\* the text up to the closing quote, escapes undone; a raw newline, an
\* unknown escape or a missing closing quote is an error.
RECURSIVE ParseString(_, _, _)
ParseString(chars, i, text) ==
    IF i > Len(chars) THEN NoParse
    ELSE IF chars[i] = QUOTE THEN [ok |-> TRUE, text |-> text, next |-> i + 1]
    ELSE IF chars[i] = NEWLINE THEN NoParse
    ELSE IF chars[i] = BACKSLASH
      THEN IF i + 1 > Len(chars) THEN NoParse
           ELSE IF chars[i + 1] \in {QUOTE, BACKSLASH}
             THEN ParseString(chars, i + 2, Append(text, chars[i + 1]))
           ELSE IF chars[i + 1] = "n"
             THEN ParseString(chars, i + 2, Append(text, NEWLINE))
           ELSE NoParse
    ELSE ParseString(chars, i + 1, Append(text, chars[i]))

\* The members of a JSON object from position i on: <<key, value>> pairs,
\* or <<"error">> when the line is no JSON object of strings.
RECURSIVE ParseMembers(_, _, _)
ParseMembers(chars, i, members) ==
    IF i > Len(chars) \/ chars[i] # QUOTE THEN <<"error">>
    ELSE LET key == ParseString(chars, i + 1, <<>>)
         IN IF ~key.ok \/ key.next + 1 > Len(chars) \/ chars[key.next] # ":"
                \/ chars[key.next + 1] # QUOTE
              THEN <<"error">>
            ELSE LET val == ParseString(chars, key.next + 2, <<>>)
                     found == Append(members, <<key.text, val.text>>)
                 IN IF ~val.ok \/ val.next > Len(chars) THEN <<"error">>
                    ELSE IF chars[val.next] = "}" /\ val.next = Len(chars)
                      THEN found
                    ELSE IF chars[val.next] = ","
                      THEN ParseMembers(chars, val.next + 1, found)
                    ELSE <<"error">>

\* json.loads(line): the entry as a record over the keys it has, with
\* json "invalid" when json.loads raises.
json_loads(line) ==
    LET members == IF line # <<>> /\ line[1] = "{"
                     THEN ParseMembers(line, 2, <<>>) ELSE <<"error">>
        Value(key) ==
            IF \E m \in DOMAIN members : members[m][1] = <<key>>
              THEN members[CHOOSE m \in DOMAIN members :
                              /\ members[m][1] = <<key>>
                              /\ \A later \in DOMAIN members :
                                    members[later][1] = <<key>> => later <= m][2]
              ELSE <<>>
    IN IF members = <<"error">>
         THEN [json |-> "invalid", keys |-> {}, timestamp |-> <<>>, field |-> <<>>,
               old_value |-> <<>>, new_value |-> <<>>]
       ELSE [json |-> "object",
             keys |-> {k \in AuditKeys : \E m \in DOMAIN members : members[m][1] = <<k>>},
             timestamp |-> Value("timestamp"), field |-> Value("field"),
             old_value |-> Value("old_value"), new_value |-> Value("new_value")]

\* The reader's loop over the stored text: the non-blank lines that
\* json.loads accepts.
ReadTrail(audit_trail) ==
    LET audit_lines == Split(audit_trail)
        loaded == [k \in DOMAIN audit_lines |-> json_loads(audit_lines[k])]
    IN SelectSeq(loaded, LAMBDA entry : entry.json = "object")

\* add_audit_entry makes the token of a change.
Encode ==
    /\ codec.step = "input"
    /\ codec' = [codec EXCEPT !.step = "encoded",
                              !.token = AuditToken(codec.field_name, codec.old_value,
                                                   codec.new_value, codec.now)]
    /\ UNCHANGED <<games, audit_cols, df, clock, run, history, edits,
                   inline_edits, imports, applied, calendar, settings, got,
                   pragmas, pages>>

\* The save joins the token onto the stored trail.
Store ==
    /\ codec.step = "encoded"
    /\ codec' = [codec EXCEPT !.step = "stored",
                              !.audit_trail = JoinTrail(codec.existing_audit, codec.token)]
    /\ UNCHANGED <<games, audit_cols, df, clock, run, history, edits,
                   inline_edits, imports, applied, calendar, settings, got,
                   pragmas, pages>>

\* The history reader splits the stored trail and loads its lines.
Load ==
    /\ codec.step = "stored"
    /\ codec' = [codec EXCEPT !.step = "read",
                              !.audit_data = ReadTrail(codec.audit_trail)]
    /\ UNCHANGED <<games, audit_cols, df, clock, run, history, edits,
                   inline_edits, imports, applied, calendar, settings, got,
                   pragmas, pages>>

\* ------------------------------------------------------------- calculator

\* One call of the calculation on the parsed date; the result of the call
\* before it is kept for comparison.
Calculate ==
    /\ calendar.previous = <<>>
    /\ calendar' = [calendar EXCEPT !.result = week_and_daycode(calendar.date),
                                    !.previous = calendar.result]
    /\ UNCHANGED <<games, audit_cols, df, clock, run, history, edits,
                   inline_edits, imports, applied, codec, settings, got,
                   pragmas, pages>>

\* ------------------------------------------------------- Data Query Tool
\* Texts are sequences of characters, so that strip(), upper(), startswith()
\* and "keyword in text" are computed on them.
Lower == <<"a", "b", "c", "d", "e", "f", "g", "h", "i", "j", "k", "l", "m",
           "n", "o", "p", "q", "r", "s", "t", "u", "v", "w", "x", "y", "z">>
Upper == <<"A", "B", "C", "D", "E", "F", "G", "H", "I", "J", "K", "L", "M",
           "N", "O", "P", "Q", "R", "S", "T", "U", "V", "W", "X", "Y", "Z">>
\* str.upper(), character by character.
upper(text) ==
    [i \in DOMAIN text |->
        IF \E k \in DOMAIN Lower : Lower[k] = text[i]
          THEN Upper[CHOOSE k \in DOMAIN Lower : Lower[k] = text[i]]
          ELSE text[i]]

\* str.strip(): the text without its leading and trailing blanks.
RECURSIVE strip(_)
strip(text) ==
    IF text = <<>> THEN <<>>
    ELSE IF Head(text) = " " THEN strip(Tail(text))
    ELSE IF text[Len(text)] = " " THEN strip(SubSeq(text, 1, Len(text) - 1))
    ELSE text

\* text.startswith(prefix)
startswith(text, prefix) ==
    Len(prefix) <= Len(text) /\ SubSeq(text, 1, Len(prefix)) = prefix

\* "keyword in text": the keyword occurs anywhere in the text.
contains(text, keyword) ==
    \E i \in 1..(Len(text) - Len(keyword) + 1) :
       SubSeq(text, i, i + Len(keyword) - 1) = keyword

SELECT == <<"S", "E", "L", "E", "C", "T">>

PRAGMA == <<"P", "R", "A", "G", "M", "A">>

\* dangerous_keywords, in the order the loop tries them.
dangerous_keywords ==
    <<<<"I", "N", "S", "E", "R", "T">>,
      <<"U", "P", "D", "A", "T", "E">>,
      <<"D", "E", "L", "E", "T", "E">>,
      <<"D", "R", "O", "P">>,
      <<"A", "L", "T", "E", "R">>,
      <<"C", "R", "E", "A", "T", "E">>,
      <<"T", "R", "U", "N", "C", "A", "T", "E">>,
      <<"R", "E", "P", "L", "A", "C", "E">>,
      <<"M", "E", "R", "G", "E">>,
      <<"G", "R", "A", "N", "T">>,
      <<"R", "E", "V", "O", "K", "E">>>>

\* The texts typed into the query box.
query_select_games ==
    <<"S", "E", "L", "E", "C", "T", " ", "*", " ", "F", "R", "O", "M", " ",
      "g", "a", "m", "e", "s">>
query_select_padded ==
    <<" ", " ", "s", "e", "l", "e", "c", "t", " ", "*", " ", "f", "r", "o",
      "m", " ", "g", "a", "m", "e", "s", " ">>
query_table_info ==
    <<"P", "R", "A", "G", "M", "A", " ", "t", "a", "b", "l", "e", "_", "i",
      "n", "f", "o", "(", "g", "a", "m", "e", "s", ")">>
query_read_version ==
    <<"p", "r", "a", "g", "m", "a", " ", "u", "s", "e", "r", "_", "v", "e",
      "r", "s", "i", "o", "n">>
query_set_version ==
    <<"P", "R", "A", "G", "M", "A", " ", "u", "s", "e", "r", "_", "v", "e",
      "r", "s", "i", "o", "n", " ", "=", " ", "1">>
query_set_version_padded ==
    <<" ", "p", "r", "a", "g", "m", "a", " ", "u", "s", "e", "r", "_", "v",
      "e", "r", "s", "i", "o", "n", " ", "=", " ", "2">>
query_update_games ==
    <<"U", "P", "D", "A", "T", "E", " ", "g", "a", "m", "e", "s", " ", "S",
      "E", "T", " ", "S", "t", "a", "t", "u", "s", " ", "=", " ", "'", "x",
      "'">>
query_select_then_delete ==
    <<"s", "e", "l", "e", "c", "t", " ", "1", ";", " ", "d", "e", "l", "e",
      "t", "e", " ", "f", "r", "o", "m", " ", "g", "a", "m", "e", "s">>
query_select_updated ==
    <<"S", "E", "L", "E", "C", "T", " ", "*", " ", "F", "R", "O", "M", " ",
      "g", "a", "m", "e", "s", " ", "W", "H", "E", "R", "E", " ", "S", "t",
      "a", "t", "u", "s", " ", "=", " ", "'", "U", "p", "d", "a", "t", "e",
      "d", "'">>
query_vacuum ==
    <<"V", "A", "C", "U", "U", "M">>
query_selectx ==
    <<"s", "e", "l", "e", "c", "t", "x">>
query_blank ==
    <<" ", " ">>

Queries ==
    {query_select_games,
     query_select_padded,
     query_table_info,
     query_read_version,
     query_set_version,
     query_set_version_padded,
     query_update_games,
     query_select_then_delete,
     query_select_updated,
     query_vacuum,
     query_selectx,
     query_blank}

\* The statements of the query box that SQLite answers with rows, blanks
\* and letter case left aside.
Readable ==
    {upper(strip(query_select_games)), upper(strip(query_table_info)),
     upper(strip(query_read_version)), upper(strip(query_select_updated))}

PRAGMA_USER_VERSION_SET ==
    <<"P", "R", "A", "G", "M", "A", " ", "U", "S", "E", "R", "_", "V", "E", "R", "S", "I", "O", "N", " ", "=", " ">>

\* pd.read_sql(query, conn) on a new connection: cursor.execute(query) and
\* the rows as a DataFrame.  sqlite3 refuses a text of several statements;
\* a statement that returns no rows leaves cursor.description None, on
\* which pandas raises.  PRAGMA user_version = N is written to the file as
\* it executes; INSERT, UPDATE and DELETE open a transaction that is never
\* committed, and every other text is a syntax error.
read_sql(query) ==
    LET statement == upper(strip(query))
        assigned == Len(PRAGMA_USER_VERSION_SET) + 1
    IN IF contains(statement, <<";">>)
         THEN [raised |-> TRUE, pragmas |-> pragmas]
       ELSE IF statement \in Readable
         THEN [raised |-> FALSE, pragmas |-> pragmas]
       ELSE IF /\ startswith(statement, PRAGMA_USER_VERSION_SET)
               /\ Len(statement) = assigned
               /\ \E n \in DOMAIN Digits : Digits[n] = statement[assigned]
         THEN [raised |-> TRUE,
               pragmas |-> [pragmas EXCEPT !.user_version =
                              (CHOOSE n \in DOMAIN Digits :
                                 Digits[n] = statement[assigned]) - 1]]
       ELSE [raised |-> TRUE, pragmas |-> pragmas]

\* A script run of the Data Query Tool page with Run Query pressed: the
\* keyword loop, the SELECT/PRAGMA check and the execution in its try.
RunQueryText(s, query) ==
    /\ run[s].pc = "idle"
    /\ audit_cols' = TRUE
    /\ settings' = ensure_settings_table
    /\ df' = load_games
    /\   LET query_upper == upper(strip(query))
             found == {k \in DOMAIN dangerous_keywords :
                         contains(query_upper, dangerous_keywords[k])}
             result == read_sql(query)
             outcome == IF strip(query) = <<>> THEN "not run"
                        ELSE IF found # {} THEN "blocked"
                        ELSE IF ~(startswith(strip(query_upper), SELECT)
                                  \/ startswith(strip(query_upper), PRAGMA))
                          THEN "must start with SELECT or PRAGMA"
                        ELSE IF result.raised THEN "query error"
                        ELSE "executed successfully"
         IN /\ pages' = [pages EXCEPT ![s] =
                           [NewRun(s) EXCEPT !.body = "Data Query Tool",
                                             !.query = query,
                                             !.outcome = outcome]]
            /\ pragmas' = IF outcome \in {"query error", "executed successfully"}
                            THEN result.pragmas ELSE pragmas
    /\ UNCHANGED <<games, clock, run, history, edits, inline_edits, imports,
                   applied, calendar, codec, got>>

\* The same with any of the texts in the query box.
RunQuery(s) == \E query \in Queries : RunQueryText(s, query)

\* --------------------------------------------------------- Settings page

\* The texts typed into the Settings form, and the texts they are stripped
\* to, each with its characters.
AddressTexts ==
    {<<"", <<>>>>,
     <<"a@b.c", <<"a", "@", "b", ".", "c">>>>,
     <<" a@b.c ", <<" ", "a", "@", "b", ".", "c", " ">>>>,
     <<"ab", <<"a", "b">>>>,
     <<"a@b.c,", <<"a", "@", "b", ".", "c", ",">>>>,
     <<"a@b.c,d@e.f", <<"a", "@", "b", ".", "c", ",", "d", "@", "e", ".", "f">>>>,
     <<"a@b.c,x", <<"a", "@", "b", ".", "c", ",", "x">>>>,
     <<" , ", <<" ", ",", " ">>>>}

\* The characters of a text, and the text of a sequence of characters.
Chars(text) == (CHOOSE pair \in AddressTexts : pair[1] = text)[2]
Text(chars) == (CHOOSE pair \in AddressTexts : pair[2] = chars)[1]

\* text.endswith(suffix)
endswith(text, suffix) ==
    /\ Len(suffix) <= Len(text)
    /\ SubSeq(text, Len(text) - Len(suffix) + 1, Len(text)) = suffix

\* text.split(sep) for a separator of one character.
RECURSIVE split(_, _)
split(text, sep) ==
    IF \A i \in DOMAIN text : text[i] # sep THEN <<text>>
    ELSE LET i == CHOOSE j \in DOMAIN text :
                     text[j] = sep /\ \A k \in 1..(j - 1) : text[k] # sep
         IN <<SubSeq(text, 1, i - 1)>> \o split(SubSeq(text, i + 1, Len(text)), sep)

\* is_valid_email(email) of the Settings page.
is_valid_email(email) ==
    LET stripped == strip(email)
        ends == {<<",">>, <<".">>, <<"@">>}
    IN IF stripped = <<>> THEN FALSE
       ELSE IF ~contains(stripped, <<"@">>)
               \/ ~contains(split(stripped, "@")[2], <<".">>)
         THEN FALSE
       ELSE IF \/ \E e \in ends : startswith(stripped, e)
               \/ \E e \in ends : endswith(stripped, e)
         THEN FALSE
       ELSE TRUE

\* The errors list of a submitted Settings form.
validation_errors(from_address, to_addresses) ==
    LET to_list == [k \in DOMAIN split(to_addresses, ",") |->
                       strip(split(to_addresses, ",")[k])]
        invalid == SelectSeq(to_list,
                             LAMBDA email : email # <<>> /\ ~is_valid_email(email))
        valid_emails == SelectSeq(to_list, LAMBDA email : email # <<>>)
    IN Change(from_address # <<>> /\ ~is_valid_email(from_address),
              "From Address must be a valid email address")
       \o (IF to_addresses # <<>>
             THEN Change(endswith(strip(to_addresses), <<",">>),
                         "To Addresses cannot end with a comma")
                  \o [k \in DOMAIN invalid |-> "Invalid email address"]
                  \o Change(valid_emails = <<>>,
                            "To Addresses must contain at least one valid email address")
             ELSE <<"To Addresses cannot be empty">>)

\* set_setting(key, value) on the settings table: the table after the call
\* and the value the call returns.
set_setting(table, key, value, raises) ==
    LET done == table.exists /\ ~raises
    IN [settings |-> IF done THEN [table EXCEPT !.rows[key] = value] ELSE table,
        returned |-> done]

\* A script run of the Settings page with Save Settings pressed: the
\* validation, and for a form without errors the two set_setting calls,
\* whose return values are dropped, and the success message.
SaveSettingsForm(s, from_address, to_addresses) ==
    /\ run[s].pc = "idle"
    /\ audit_cols' = TRUE
    /\ df' = load_games
    /\   LET errors == validation_errors(Chars(from_address), Chars(to_addresses))
             shown == [NewRun(s) EXCEPT !.body = "Settings",
                                       !.from_address = from_address,
                                       !.to_addresses = to_addresses]
         IN IF errors # <<>>
              THEN /\ settings' = ensure_settings_table
                   /\ pages' = [pages EXCEPT ![s] =
                                  [shown EXCEPT !.outcome = errors[1],
                                                !.returned = <<>>]]
              ELSE \E raises_from, raises_to \in BOOLEAN :
                     LET first == set_setting(ensure_settings_table,
                                              "email_from_address",
                                              Text(strip(Chars(from_address))),
                                              raises_from)
                         second == set_setting(first.settings,
                                               "email_to_addresses",
                                               Text(strip(Chars(to_addresses))),
                                               raises_to)
                     IN /\ settings' = second.settings
                        /\ pages' = [pages EXCEPT ![s] =
                              [shown EXCEPT
                                 !.outcome = "Settings saved successfully!",
                                 !.returned = <<first.returned, second.returned>>]]
    /\ UNCHANGED <<games, clock, run, history, edits, inline_edits, imports,
                   applied, calendar, codec, got, pragmas>>

\* The same with any of the texts in the form.
SaveSettings(s) ==
    \E from_address \in {"", "a@b.c", " a@b.c ", "ab"} :
       \E to_addresses \in {"", "a@b.c", " a@b.c ", "a@b.c,", "a@b.c,d@e.f",
                             "a@b.c,x", " , "} :
          SaveSettingsForm(s, from_address, to_addresses)

\* ------------------------------------------------------------- admin gate

ADMIN_PASSWORD == "wusarocks"

\* The texts typed into the login form.
Passwords == {"wusarocks", "wusa"}

\* Variant: the flag is looked up in the state of any session.
check_admin_access_anyone(s) ==
    \E t \in Sessions : pages[t].admin_authenticated

\* check_admin_access(): admin_authenticated of this session's state, set
\* to False when absent.
check_admin_access(s) == pages[s].admin_authenticated

\* A script run on an admin page by a session that is not authenticated:
\* show_admin_login() and st.stop().  The form is displayed, or it was
\* submitted with a password.
ShowAdminLogin(s) ==
    /\ run[s].pc = "idle"
    /\ ~check_admin_access(s)
    /\ audit_cols' = TRUE
    /\ settings' = ensure_settings_table
    /\ df' = load_games
    /\ \E submitted \in BOOLEAN : \E password \in Passwords :
         pages' = [pages EXCEPT ![s] =
            IF ~submitted
              THEN [NewRun(s) EXCEPT !.body = "Admin Access Required"]
            ELSE IF password = ADMIN_PASSWORD
              THEN [NewRun(s) EXCEPT !.body = "Admin Access Required",
                                     !.password = password,
                                     !.admin_authenticated = TRUE,
                                     !.outcome = "Authentication successful!"]
            ELSE [NewRun(s) EXCEPT !.body = "Admin Access Required",
                                   !.password = password,
                                   !.outcome = "Incorrect password"]]
    /\ UNCHANGED <<games, clock, run, history, edits, inline_edits, imports,
                   applied, calendar, codec, got, pragmas>>

\* A script run with the sidebar's Logout (Admin) button pressed; the
\* button is there for an authenticated session only.
Logout(s) ==
    /\ run[s].pc = "idle"
    /\ pages[s].admin_authenticated
    /\ audit_cols' = TRUE
    /\ settings' = ensure_settings_table
    /\ df' = load_games
    /\ pages' = [pages EXCEPT ![s] =
                   [NewRun(s) EXCEPT !.body = "Logout",
                                     !.admin_authenticated = FALSE]]
    /\ UNCHANGED <<games, clock, run, history, edits, inline_edits, imports,
                   applied, calendar, codec, got, pragmas>>

\* ------------------------------------------------------------------ clock

Tick ==
    /\ clock < MaxClock
    /\ clock' = clock + 1
    /\ UNCHANGED <<games, audit_cols, df, run, history, edits, inline_edits,
                   imports, applied,
                   calendar, codec, settings, got,
                   pragmas, pages>>

\* -------------------------------------------------------- specifications

\* One step of one session's Edit Game script run.
EditGame(s) ==
    \/ ReadSelectedGame(s)
    \/ DetectChanges(s)
    \/ SaveChanges(s)
    \/ Rerun(s)
    \/ StorageFailure(s)
    \/ ScriptEnds(s)

\* The administrators' sessions on the Edit Game page, their script runs
\* interleaved.
Next ==
    \/ \E s \in Sessions : ReadSelectedGame(s)
    \/ \E s \in Sessions : DetectChanges(s)
    \/ \E s \in Sessions : SaveChanges(s)
    \/ \E s \in Sessions : Rerun(s)
    \/ \E s \in Sessions : StorageFailure(s)
    \/ \E s \in Sessions : ScriptEnds(s)
    \/ Tick

Spec == Init /\ [][Next]_vars

\* The same sessions, one script run at a time: a session steps only while
\* every other session is between script runs.
NextSeq ==
    \/ \E s \in Sessions :
         /\ \A t \in Sessions \ {s} : run[t].pc = "idle"
         /\ EditGame(s)
    \/ Tick

SpecSeq == Init /\ [][NextSeq]_vars

\* Every page that writes: the Edit Game script runs and the Full Schedule
\* page's inline Comment edit, one script run at a time.
NextApp ==
    \/ NextSeq
    \/ \E s \in Sessions :
         /\ \A t \in Sessions \ {s} : run[t].pc = "idle"
         /\ InlineCommentEdit(s)

SpecApp == Init /\ [][NextApp]_vars

\* The Edit Game sessions while the scheduler's export is imported again.
NextImport ==
    \/ Next
    \/ \E csv \in {CsvFull, CsvShort} : LoadData(csv)
    \/ \E s \in Sessions : SelectRaises(s)

SpecImport == Init /\ [][NextImport]_vars

\* The Edit Game sessions, one script run at a time, on the same schedule
\* with game 2, whose Week and Daycode are those of its date, as the file's
\* first row: the sessions open game 2.
InitReversed ==
    /\ games = TableOf(<<CsvRow2, CsvRow1>>)
    /\ audit_cols = FALSE
    /\ df = NoCache
    /\ clock = 1
    /\ run = [s \in Sessions |-> IdleRun]
    /\ history = [s \in Sessions |-> NoHistory]
    /\ edits = 0
    /\ inline_edits = 0
    /\ imports = 0
    /\ applied = [n \in GameNums |-> <<>>]
    /\ HelpersIdle

SpecReversed == InitReversed /\ [][NextSeq]_vars

\* The Edit Game sessions, one script run at a time, over the schedule with
\* an undated game.
InitUndated ==
    /\ games = TableOf(CsvUndated)
    /\ audit_cols = FALSE
    /\ df = NoCache
    /\ clock = 1
    /\ run = [s \in Sessions |-> IdleRun]
    /\ history = [s \in Sessions |-> NoHistory]
    /\ edits = 0
    /\ inline_edits = 0
    /\ imports = 0
    /\ applied = [n \in GameNums |-> <<>>]
    /\ HelpersIdle

SpecUndated == InitUndated /\ [][NextSeq]_vars

\* The settings store called in any order, from the database load_data.py
\* leaves.
NextSettings ==
    \/ AppStarts
    \/ \E key \in SettingKeys : \E default \in SettingDefaults :
          GetSetting(key, default)
    \/ \E key \in SettingKeys : \E value \in SettingValues :
          SetSetting(key, value)

SpecSettings == Init /\ [][NextSettings]_vars

\* Session A edits a game while session B reads it: B opens the game and
\* submits its own form, or displays the game's change history.
NextReads ==
    \/ (edits < MaxPageEdits \/ run["A"].pc # "idle") /\ EditGame("A")
    \/ EditGame("B")
    \/ ViewHistory("B")

SpecReads == Init /\ [][NextReads]_vars

\* The loaded schedule, with both sessions logged in.
InitLoggedIn ==
    /\ games = TableOf(CsvFull)
    /\ audit_cols = FALSE
    /\ df = NoCache
    /\ clock = 1
    /\ run = [s \in Sessions |-> IdleRun]
    /\ history = [s \in Sessions |-> NoHistory]
    /\ edits = 0
    /\ inline_edits = 0
    /\ imports = 0
    /\ applied = [n \in GameNums |-> <<>>]
    /\ calendar = NoCalendar
    /\ codec = NoCodec
    /\ settings = NoSettings
    /\ got = NoGot
    /\ pragmas = NoPragmas
    /\ pages = [s \in Sessions |-> [NoPage EXCEPT !.admin_authenticated = TRUE]]

\* The Data Query Tool, used by the sessions in turn.
NextQuery == \E s \in Sessions : RunQuery(s)

SpecQuery == InitLoggedIn /\ [][NextQuery]_vars

\* The Settings page, used by the sessions in turn.
NextSettingsPage == \E s \in Sessions : SaveSettings(s)

SpecSettingsPage == InitLoggedIn /\ [][NextSettingsPage]_vars

\* The admin pages behind the gate.  Both sessions log in; session A logs
\* out, opens the admin pages, and reaches a page's body only past
\* check_admin_access().  The later steps of an Edit Game run belong to the
\* run that passed it; the storage does not fail here.
NextAdmin ==
    \/ \E s \in Sessions : ShowAdminLogin(s)
    \/ Logout("A")
    \/ /\ check_admin_access("A")
       /\ \/ edits < MaxPageEdits /\ ReadSelectedGame("A")
          \/ RunQueryText("A", query_set_version)
          \/ SaveSettingsForm("A", "", "a@b.c")
          \/ ViewRecentChanges("A")
    \/ DetectChanges("A")
    \/ SaveChanges("A")
    \/ Rerun("A")

SpecAdmin == Init /\ [][NextAdmin]_vars

\* One administrator's session on every page of the app that reads or
\* writes the database: Edit Game, Full Schedule, the two change histories
\* and Settings.
NextPages ==
    \/ (edits < MaxPageEdits \/ run["A"].pc # "idle") /\ EditGame("A")
    \/ InlineCommentEdit("A")
    \/ ViewHistory("A")
    \/ ViewRecentChanges("A")
    \/ AppStarts
    \/ GetSetting("email_to_addresses", "")
    \/ SetSetting("email_to_addresses", "a@example.org")
    \/ Tick

SpecPages == Init /\ [][NextPages]_vars

\* Values handed to add_audit_entry: integers as the Week column holds
\* them, and texts of up to MaxText characters.
Characters == {"n", "3", QUOTE, NEWLINE, BACKSLASH}

Values ==
    {[type |-> "int", int |-> n, text |-> <<>>] : n \in {3, 40}}
    \cup {[type |-> "str", int |-> 0, text |-> t] :
            t \in UNION {[1..n -> Characters] : n \in 0..MaxText}}

\* Old values: the integer 3, the text "3", and a text with a quote and a
\* newline.
OldValues ==
    {v \in Values : \/ v.type = "int" /\ v.int = 3
                    \/ v.type = "str" /\ v.text \in {<<"3">>, <<QUOTE, NEWLINE>>}}

\* One change encoded, joined onto an empty trail or onto a trail of one
\* earlier token, and read back.
InitCodec ==
    /\ games = TableOf(CsvFull)
    /\ audit_cols = TRUE
    /\ df = NoCache
    /\ clock = 1
    /\ run = [s \in Sessions |-> IdleRun]
    /\ history = [s \in Sessions |-> NoHistory]
    /\ edits = 0
    /\ inline_edits = 0
    /\ imports = 0
    /\ applied = [n \in GameNums |-> <<>>]
    /\ calendar = NoCalendar
    /\ \E field_name \in {"Comment", "Week (auto-calculated)"} :
       \E old_value \in OldValues : \E new_value \in Values :
       \E existing_audit \in {<<>>, AuditToken("Status", new_value, old_value, 1)} :
          codec = [NoCodec EXCEPT !.step = "input", !.field_name = field_name,
                                  !.old_value = old_value, !.new_value = new_value,
                                  !.now = MaxClock, !.existing_audit = existing_audit]
    /\ settings = DefaultSettings
    /\ got = NoGot
    /\ pragmas = NoPragmas
    /\ pages = [s \in Sessions |-> NoPage]

NextCodec == Encode \/ Store \/ Load

SpecCodec == InitCodec /\ [][NextCodec]_vars

\* Every calendar date of the years handed to the calculator.
Dates ==
    UNION {{<<y, m, d>> : d \in 1..DaysInMonth(y, m)} :
              <<y, m>> \in (2024..(2023 + MaxYears)) \X (1..12)}

\* The calculator called, up to twice, on any of these dates.
InitCalendar ==
    /\ games = TableOf(CsvFull)
    /\ audit_cols = TRUE
    /\ df = NoCache
    /\ clock = 1
    /\ run = [s \in Sessions |-> IdleRun]
    /\ history = [s \in Sessions |-> NoHistory]
    /\ edits = 0
    /\ inline_edits = 0
    /\ imports = 0
    /\ applied = [n \in GameNums |-> <<>>]
    /\ \E date \in Dates : calendar = [NoCalendar EXCEPT !.date = date]
    /\ codec = NoCodec
    /\ settings = DefaultSettings
    /\ got = NoGot
    /\ pragmas = NoPragmas
    /\ pages = [s \in Sessions |-> NoPage]

SpecCalendar == InitCalendar /\ [][Calculate]_vars

\* Lines a stored trail can hold: entries as add_audit_entry wrote them, a
\* line that is no JSON, a JSON object that lacks an entry's keys, and a
\* blank line.
HistoryLines ==
    { add_audit_entry(1, "Game Date", "Monday, September 29, 2025",
                      "Wednesday, October 8, 2025", 1),
      add_audit_entry(1, "Comment", "None", "Rainout", 2),
      [json |-> "invalid", keys |-> {}, timestamp |-> 0, field |-> "",
       old_value |-> "", new_value |-> ""],
      [json |-> "object", keys |-> {"timestamp"}, timestamp |-> 1, field |-> "",
       old_value |-> "", new_value |-> ""],
      [json |-> "blank", keys |-> {}, timestamp |-> 0, field |-> "",
       old_value |-> "", new_value |-> ""] }

StoredTrails == UNION {[1..n -> HistoryLines] : n \in 0..MaxLines}

\* The history reader over every stored trail of game 1.
InitHistory ==
    /\ \E trail \in StoredTrails :
         games = [TableOf(CsvFull) EXCEPT ![1].game_audit_trail = trail]
    /\ audit_cols = TRUE
    /\ df = NoCache
    /\ clock = 1
    /\ run = [s \in Sessions |-> IdleRun]
    /\ history = [s \in Sessions |-> NoHistory]
    /\ edits = 0
    /\ inline_edits = 0
    /\ imports = 0
    /\ applied = [n \in GameNums |-> <<>>]
    /\ HelpersStarted

NextHistory == \E s \in Sessions : ViewHistory(s)

SpecHistory == InitHistory /\ [][NextHistory]_vars

\* Lines the stored trails of the Recent Changes page can hold: those of
\* HistoryLines, a second entry of the save at second 1, and a complete
\* entry whose timestamp is no date-time text.
RecentLines ==
    HistoryLines \cup
    { add_audit_entry(1, "Week (auto-calculated)", "5", "40", 1),
      add_audit_entry(1, "Status", "Scheduled", "Cancelled", NotADate) }

\* The Recent Changes reader over the stored trails of both games.
InitRecent ==
    /\ \E trail1 \in UNION {[1..n -> RecentLines] : n \in 0..MaxLines} :
       \E trail2 \in UNION {[1..n -> RecentLines] : n \in 0..1} :
       \E t2 \in {0, MaxClock} :
         games = [TableOf(CsvFull) EXCEPT ![1].game_audit_trail = trail1,
                                          ![1].last_updated = 1,
                                          ![2].game_audit_trail = trail2,
                                          ![2].last_updated = t2]
    /\ audit_cols = TRUE
    /\ df = NoCache
    /\ clock = 1
    /\ run = [s \in Sessions |-> IdleRun]
    /\ history = [s \in Sessions |-> NoHistory]
    /\ edits = 0
    /\ inline_edits = 0
    /\ imports = 0
    /\ applied = [n \in GameNums |-> <<>>]
    /\ HelpersStarted

NextRecent == \E s \in Sessions : ViewRecentChanges(s)

SpecRecent == InitRecent /\ [][NextRecent]_vars

\* ----------------------------------------------------------------- claims

\* Steps of a session's save: the UPDATE is committed, or the storage
\* layer raises.
Saves(s) == run[s].pc = "update" /\ run'[s].pc = "saved"
Fails(s) == run[s].pc = "update" /\ run'[s].pc = "failed"

\* The submitted form holds exactly the row's stored values.
SameAsStored(form, row) ==
    /\ form.new_game_date = row.GameDate
    /\ form.new_field = row.Field
    /\ form.new_time = row.Time
    /\ form.new_home = row.Home
    /\ form.new_away = row.Away
    /\ form.new_status = row.Status
    /\ form.new_comment = row.Comment
    /\ form.new_original_date = row.OriginalDate

\* C1: a save whose submitted values all equal the record's current values
\* leaves the record as it was: no audit entry is added and last_updated
\* (like every other column) keeps its value.
C1_NoOpLeavesRecord ==
    [][\A s \in Sessions :
         Saves(s) =>
           \A i \in RowsWhere(games, run[s].game_num) :
              SameAsStored(run[s].form, games[i]) => games'[i] = games[i]]_vars

\* C2: a record that an Edit Game save has written (last_updated > 0)
\* stores the Week and Daycode that calculate_week_and_daycode gives for its
\* stored Game Date, which is <<0, 0>> for a date that does not parse.
C2_DerivedFieldsConsistent ==
    \A i \in DOMAIN games :
       games[i].last_updated > 0 =>
          <<games[i].Week, games[i].Daycode>> =
              calculate_week_and_daycode(games[i].GameDate)

\* C2 witness: game 1, imported with the scheduler's week 5, has been saved
\* with its date unchanged and now stores the ISO week of that date.
C2_Witness ==
    \E i \in DOMAIN games :
       /\ games[i].last_updated > 0
       /\ games[i].GameDate = CsvRow1.GameDate
       /\ games[i].Week = 40
       /\ CsvRow1.Week # 40

\* C3: with the saves applied one after the other, the stored trail of a
\* game is exactly the entries of its committed saves, in the order the
\* saves were applied.
C3_TrailIsConcatenation ==
    \A i \in DOMAIN games :
       games[i].game_audit_trail = applied[games[i].GameNum]

\* C3 witness: a trail that holds two entries for the same field, which only
\* two saves can produce.
C3_Witness ==
    \E i \in DOMAIN games :
       \E a, b \in DOMAIN games[i].game_audit_trail :
          /\ a < b
          /\ games[i].game_audit_trail[a].field = games[i].game_audit_trail[b].field

\* C4: a save in which the storage layer raises leaves every row of the
\* table exactly as it was before the save.
C4_FailureChangesNothing ==
    [][\A s \in Sessions : Fails(s) => games' = games]_vars

\* C4 witness: a failed save whose UPDATE would have changed the record.
C4_Witness ==
    \E s \in Sessions :
       /\ run[s].pc = "failed"
       /\ run[s].audit_entries # <<>>
       /\ UpdateGames(games, run[s]) # games

\* C5: a save whose UPDATE matched no row (the game was only in the cached
\* table) is reported as an error and sends no notification.
C5_NotFoundReported ==
    \A s \in Sessions :
       (run[s].pc \in {"saved", "failed"} /\ run[s].rowcount = 0) =>
          (run[s].message \in {"error", "exception"} /\ ~run[s].emailed)

\* C6: the stored last_updated of a record never becomes smaller.
C6_LastUpdatedNeverDecreases ==
    [][\A i \in DOMAIN games :
         games'[i].last_updated >= games[i].last_updated]_vars

\* The user-editable columns of a row, under the form's names.
UserColumns(row) ==
    [new_game_date |-> row.GameDate, new_field |-> row.Field,
     new_time |-> row.Time, new_home |-> row.Home, new_away |-> row.Away,
     new_status |-> row.Status, new_comment |-> row.Comment,
     new_original_date |-> row.OriginalDate]

\* The user fields on which a submitted form differs from a row, under the
\* names the audit entries give them.
DiffFields(row, form) ==
    {f \in {"Game Date", "Field", "Time", "Home Team", "Away Team", "Status",
            "Comment", "Original Date"} :
        CASE f = "Game Date" -> form.new_game_date # row.GameDate
          [] f = "Field" -> form.new_field # row.Field
          [] f = "Time" -> form.new_time # row.Time
          [] f = "Home Team" -> form.new_home # row.Home
          [] f = "Away Team" -> form.new_away # row.Away
          [] f = "Status" -> form.new_status # row.Status
          [] f = "Comment" -> form.new_comment # Str(row.Comment)
          [] f = "Original Date" -> form.new_original_date # Str(row.OriginalDate)}

AutoFields == {"Week (auto-calculated)", "Daycode (auto-calculated)"}

EntryFields(entries) == {entries[k].field : k \in DOMAIN entries}

\* C7: whatever the table holds when a session's save commits, the save
\* replaces every user column of the record by the session's submitted
\* values, and the user-field entries it logs are those on which the form
\* differs from the row the session read, not from the row it overwrites.
C7_LaterWriteReplacesRecord ==
    [][\A s \in Sessions :
         Saves(s) =>
           \A i \in RowsWhere(games, run[s].game_num) :
              /\ UserColumns(games'[i]) = run[s].form
              /\ EntryFields(run[s].audit_entries) \ AutoFields =
                    DiffFields(run[s].selected_game, run[s].form)]_vars

\* C7 witness: the lost update.  The last committed entry for Game Date
\* says the date became a value that the record no longer stores: a later
\* save wrote its stale date over it and logged nothing for the reversal.
C7_Witness ==
    \E i \in DOMAIN games :
       LET log == applied[games[i].GameNum]
       IN \E k \in DOMAIN log :
            /\ log[k].field = "Game Date"
            /\ \A j \in DOMAIN log : j > k => log[j].field # "Game Date"
            /\ log[k].new_value # games[i].GameDate

RECURSIVE IsSubsequence(_, _)
IsSubsequence(a, b) ==
    IF a = <<>> THEN TRUE
    ELSE IF b = <<>> THEN FALSE
    ELSE IF Head(a) = Head(b) THEN IsSubsequence(Tail(a), Tail(b))
    ELSE IsSubsequence(a, Tail(b))

\* C8: every entry of every committed save is in the stored trail, in the
\* order in which the saves committed.
C8_CommittedEntriesSurvive ==
    \A i \in DOMAIN games :
       IsSubsequence(applied[games[i].GameNum], games[i].game_audit_trail)

\* A session's save writes row i.
SaveWrites(s, i) ==
    /\ Saves(s)
    /\ games[i].GameNum = run[s].game_num
    /\ games'[i] = UpdateGames(games, run[s])[i]
    /\ games'[i].game_audit_trail = run[s].new_audit_trail
    /\ games'[i].last_updated = run[s].current_timestamp

\* C9: every change of a stored game row is made by an Edit Game save.
C9_OnlySavesWrite ==
    [][\A i \in DOMAIN games :
         games'[i] # games[i] => \E s \in Sessions : SaveWrites(s, i)]_vars

\* C9 as amended: a stored game row changes either by an Edit Game save,
\* which writes the submitted values, the recalculated pair, the trail and
\* last_updated together, or by the Full Schedule inline edit, which changes
\* the Comment column and nothing else.
C9_SavesOrInlineComment ==
    [][\A i \in DOMAIN games :
         games'[i] # games[i] =>
            \/ \E s \in Sessions : SaveWrites(s, i)
            \/ /\ inline_edits' = inline_edits + 1
               /\ games'[i] = [games[i] EXCEPT !.Comment = games'[i].Comment]]_vars

\* C9 witness: a record whose Comment the inline edit has changed: no
\* entry in its trail and no last_updated stamp.
C9_Witness ==
    /\ inline_edits > 0
    /\ \E i \in DOMAIN games :
          /\ games[i].Comment # TableOf(CsvFull)[i].Comment
          /\ games[i].game_audit_trail = <<>>
          /\ games[i].last_updated = 0

\* A line that decodes to a complete entry.
Decodable(line) == line.json = "object" /\ line.keys = AuditKeys

\* C10: the displayed history of game 1 is exactly the decodable entries of
\* its stored trail, most recent first, and displaying it does not raise.
C10_HistorySkipsCorrupted ==
    \A s \in Sessions :
       history[s].shown =>
          /\ ~history[s].raised
          /\ history[s].rows = Reverse(SelectSeq(ExistingAudit(1), Decodable))

\* The decodable entries of a game's stored trail with timestamp t, as
\* rows of the all-games list.
EntriesAt(game, t) ==
    LET At(line) == Decodable(line) /\ line.timestamp = t
        lines == SelectSeq(game.game_audit_trail, At)
    IN [k \in DOMAIN lines |->
           [game |-> game.GameNum, timestamp |-> t, field |-> lines[k].field,
            old_value |-> lines[k].old_value, new_value |-> lines[k].new_value]]

EntryTimestamps ==
    UNION {{games[i].game_audit_trail[k].timestamp :
               k \in DOMAIN games[i].game_audit_trail} : i \in DOMAIN games}

\* C11: the all-games list does not raise, is sorted by timestamp
\* descending, and holds for every game and timestamp exactly the game's
\* decodable entries of that timestamp, latest appended first.
C11_HistoryAllOrdered ==
    \A s \in Sessions :
       history[s].shown =>
          LET rows == history[s].rows
          IN /\ ~history[s].raised
             /\ \A a, b \in DOMAIN rows :
                   a < b => rows[a].timestamp >= rows[b].timestamp
             /\ \A i \in DOMAIN games : \A t \in EntryTimestamps \cup {0} :
                   SelectSeq(rows, LAMBDA c : c.game = games[i].GameNum
                                              /\ c.timestamp = t)
                     = Reverse(EntriesAt(games[i], t))

\* The date texts that give no date.
Unparseable == {d \in DOMAIN DateText : DateText[d] = <<>>}

\* C12: calculate_week_and_daycode gives <<0, 0>> for every text that does
\* not parse, and a save that proposes such a date stores the proposed
\* values with Week 0 and Daycode 0.
C12_UnparseableDateStoresZero ==
    [][\A s \in Sessions :
         (Saves(s) /\ run[s].form.new_game_date \in Unparseable) =>
            /\ \A d \in Unparseable : calculate_week_and_daycode(d) = <<0, 0>>
            /\ \A i \in RowsWhere(games, run[s].game_num) :
                  /\ UserColumns(games'[i]) = run[s].form
                  /\ games'[i].Week = 0
                  /\ games'[i].Daycode = 0]_vars

\* C12 witness: game 1, imported with a date in week 40, was saved with
\* the date text that does not parse.
C12_Witness ==
    \E i \in DOMAIN games :
       /\ games[i].GameNum = 1
       /\ games[i].last_updated > 0
       /\ games[i].GameDate \in Unparseable
       /\ games[i].Week = 0
       /\ games[i].Daycode = 0
       /\ calculate_week_and_daycode(CsvRow1.GameDate) = <<40, 1>>

\* ISO 8601, from the definition: a week runs from Monday to Sunday and
\* belongs to the year its Thursday is in; January 1st, 2024 is a Monday.
Iso8601Weekday(date) ==
    ((Ordinal(date[1], date[2], date[3]) - Ordinal(2024, 1, 1)) % 7) + 1

Iso8601Week(date) ==
    LET thursday == Ordinal(date[1], date[2], date[3]) - Iso8601Weekday(date) + 4
        year == CHOOSE y \in (date[1] - 1)..(date[1] + 1) :
                   Ordinal(y, 1, 1) <= thursday /\ thursday < Ordinal(y + 1, 1, 1)
    IN ((thursday - Ordinal(year, 1, 1)) \div 7) + 1

\* C13: for every date of the range the calculation returns the ISO 8601
\* week, in 1..53, and the ISO weekday, in 1..7 with Monday 1, and a second
\* call on the same date returns the same pair.
C13_IsoWeekAndWeekday ==
    calendar.result # <<>> =>
       /\ calendar.result[1] = Iso8601Week(calendar.date)
       /\ calendar.result[1] \in 1..53
       /\ calendar.result[2] = Iso8601Weekday(calendar.date)
       /\ calendar.result[2] \in 1..7
       /\ calendar.previous # <<>> => calendar.previous = calendar.result

\* C13 witness: a day of January that belongs to week 53 of the year
\* before, calculated twice.
C13_Witness ==
    /\ calendar.previous # <<>>
    /\ calendar.date[2] = 1
    /\ calendar.result[1] = 53

\* The entry a token must decode to: the timestamp and field as given,
\* the two values in their str() form.
EntryOf(field_name, old_value, new_value, now) ==
    [json |-> "object", keys |-> AuditKeys, timestamp |-> strftime(now),
     field |-> <<field_name>>, old_value |-> PyStr(old_value),
     new_value |-> PyStr(new_value)]

\* C14: read back from the stored trail, the token of a change is one
\* entry with the timestamp and field it was made with and the str() forms
\* of its values; a token stored before it is one entry as well.
C14_EntryRoundTrip ==
    codec.step = "read" =>
       LET entry == EntryOf(codec.field_name, codec.old_value, codec.new_value,
                            codec.now)
           before == EntryOf("Status", codec.new_value, codec.old_value, 1)
       IN codec.audit_data =
             IF codec.existing_audit = <<>> THEN <<entry>> ELSE <<before, entry>>

\* C14 witness: an entry read back whose old value was the integer 3 and
\* whose new value has a newline and a quote, behind an earlier token.
C14_Witness ==
    /\ codec.step = "read"
    /\ codec.existing_audit # <<>>
    /\ codec.old_value.type = "int"
    /\ codec.new_value.text = <<NEWLINE, QUOTE>>
    /\ Len(codec.audit_data) = 2
    /\ codec.audit_data[2].old_value = <<"3">>
    /\ codec.audit_data[2].new_value = <<NEWLINE, QUOTE>>

\* C15: a save with changes commits its UPDATE and is reported as saved
\* whether the notification was sent or failed; after the report the
\* session writes nothing more (no rollback, no second write); a save
\* that fails before its commit attempts no notification.
C15_NotificationNeverAffectsSave ==
    [][\A s \in Sessions :
         /\ (Saves(s) /\ run[s].changes_for_email # <<>>) =>
               /\ games' = UpdateGames(games, run[s])
               /\ run'[s].emailed
               /\ run'[s].message \in {"saved_email_sent", "saved_email_failed"}
         /\ run[s].pc = "saved" =>
               /\ run'[s].pc \in {"saved", "idle"}
               /\ games' # games => \E t \in Sessions \ {s} : Saves(t)
         /\ Fails(s) => ~run'[s].emailed]_vars

\* C15 witness: a save reported as saved although its notification
\* failed, with its entries in the stored trail.
C15_Witness ==
    \E s \in Sessions :
       /\ run[s].pc = "saved"
       /\ run[s].message = "saved_email_failed"
       /\ \E i \in RowsWhere(games, run[s].game_num) :
             /\ games[i].game_audit_trail # <<>>
             /\ games[i].last_updated > 0

\* C16: a save whose write the storage layer rejects shows the error
\* with the storage layer's message, reports nothing as saved, attempts no
\* notification and leaves the table as it was; the script run then ends
\* without writing again.
C16_StorageFailureSurfaced ==
    [][\A s \in Sessions :
         /\ Fails(s) =>
               /\ run'[s].message = "error"
               /\ \E e \in StorageErrors :
                     run'[s].error = "Error updating game: " \o e
               /\ ~run'[s].emailed
               /\ games' = games
         /\ run[s].pc = "failed" =>
               /\ run'[s].pc \in {"failed", "idle"}
               /\ games' # games => \E t \in Sessions \ {s} : Saves(t)]_vars

\* C16 witness: a save with pending changes was rejected with "database is
\* locked" and the page shows it.
C16_Witness ==
    \E s \in Sessions :
       /\ run[s].pc = "failed"
       /\ run[s].audit_entries # <<>>
       /\ run[s].error = "Error updating game: database is locked"
       /\ \A i \in RowsWhere(games, run[s].game_num) :
             games[i].game_audit_trail = applied[run[s].game_num]

\* C20: get_setting returns the value of the last successful set_setting
\* of the key, the default when the key was never set and has no row, and
\* changes nothing; set_setting changes no other key's row.
C20_SettingsGetSet ==
    [][/\ (got'.called /\ got' # got) =>
             /\ got.set_values[got'.key] # Absent =>
                   got'.value = got.set_values[got'.key]
             /\ (/\ got.set_values[got'.key] = Absent
                 /\ (~settings.exists \/ settings.rows[got'.key] = Absent)) =>
                   got'.value = got'.default
             /\ settings' = settings
       /\ (got'.set_values # got.set_values) =>
             \A k \in SettingKeys :
                got'.set_values[k] = got.set_values[k] =>
                   settings'.rows[k] = settings.rows[k]]_vars

\* C20 witness: a key set to the empty text reads as the empty text, not as
\* the default, while a second key has been set and a third still has its
\* default row.
C20_Witness ==
    /\ got.called
    /\ got.key = "email_from_address"
    /\ got.default = "jpowers@gmail.com"
    /\ got.set_values["email_from_address"] = ""
    /\ got.value = ""
    /\ got.set_values["other"] = "b@example.org"
    /\ settings.rows["email_to_addresses"] = "jpowers@gmail.com"

\* C17: on every page of the app the games table keeps the rows of the
\* import: no row is added or removed and no row's game number changes.
C17_GameSetConstant ==
    /\ DOMAIN games = DOMAIN CsvFull
    /\ \A i \in DOMAIN games : games[i].GameNum = CsvFull[i].GameNum

\* C17 witness: the session has saved a game, edited a comment inline,
\* run the migrations, displayed a history and stored a setting.
C17_Witness ==
    /\ \E i \in DOMAIN games : games[i].last_updated > 0
    /\ inline_edits > 0
    /\ audit_cols
    /\ history["A"].shown
    /\ got.set_values["email_to_addresses"] # Absent

\* The game numbers of the table are unique.
UniqueGameNumbers ==
    \A i, j \in DOMAIN games : games[i].GameNum = games[j].GameNum => i = j

\* C18: with unique game numbers, a save for a game leaves every other
\* game's row as it was and leaves the game's own number and division as
\* they were.
C18_SingleRecordEffect ==
    [][\A s \in Sessions :
         (Saves(s) /\ UniqueGameNumbers) =>
            \A i \in DOMAIN games :
               /\ games[i].GameNum # run[s].game_num => games'[i] = games[i]
               /\ games'[i].GameNum = games[i].GameNum
               /\ games'[i].Division = games[i].Division]_vars

\* C18 witness: game 1 was saved with the date of game 2, and the row of
\* game 2 is as imported.
C18_Witness ==
    \E i, j \in DOMAIN games :
       /\ games[i].GameNum = 1
       /\ games[i].last_updated > 0
       /\ games[i].GameDate = CsvRow2.GameDate
       /\ games[i].Division = CsvRow1.Division
       /\ games[j] = CsvRow2

\* The rows a read of game_num can return while the sessions other than s
\* are where they are: the committed row, or the row as the UPDATE of a
\* session that is about to write it will leave it.
WholeRows(s, game_num) ==
    {games[i] : i \in RowsWhere(games, game_num)}
    \cup {UpdateGames(games, run[t])[i] :
             t \in {u \in Sessions \ {s} : run[u].pc = "update"
                                           /\ run[u].game_num = game_num},
             i \in RowsWhere(games, game_num)}

BlockedKeywords ==
    {<<"I", "N", "S", "E", "R", "T">>,
     <<"U", "P", "D", "A", "T", "E">>,
     <<"D", "E", "L", "E", "T", "E">>,
     <<"D", "R", "O", "P">>,
     <<"A", "L", "T", "E", "R">>,
     <<"C", "R", "E", "A", "T", "E">>,
     <<"T", "R", "U", "N", "C", "A", "T", "E">>,
     <<"R", "E", "P", "L", "A", "C", "E">>,
     <<"M", "E", "R", "G", "E">>,
     <<"G", "R", "A", "N", "T">>,
     <<"R", "E", "V", "O", "K", "E">>}

\* A text the tool may pass to the database: trimmed and upper-cased it
\* starts with SELECT or PRAGMA and holds none of the blocked keywords.
Permitted(query) ==
    LET text == upper(strip(query))
    IN /\ startswith(text, SELECT) \/ startswith(text, PRAGMA)
       /\ ~\E keyword \in BlockedKeywords : contains(text, keyword)

\* The run of the Data Query Tool that this step is, if it is one.
QueryRun(s) == pages'[s] # pages[s] /\ pages'[s].body = "Data Query Tool"

Executed(s) == pages'[s].outcome \in {"query error", "executed successfully"}

\* C21: the Data Query Tool passes a text to the database only if it is
\* permitted, and no run of the tool changes what the database stores: the
\* games, the settings (the start-up defaults apart) and the file's header.
C21_QueryToolReadOnly ==
    [][/\ \A s \in Sessions :
            QueryRun(s) => (Executed(s) <=> Permitted(pages'[s].query))
       /\ games' = games
       /\ settings' = ensure_settings_table
       /\ pragmas' = pragmas]_vars

\* The submitted form changes the Comment and leaves every other field as
\* the row holds it (a NULL Original Date is rendered, and submitted, as
\* its str()).
CommentOnly(form, row) ==
    /\ form.new_game_date = row.GameDate
    /\ form.new_field = row.Field
    /\ form.new_time = row.Time
    /\ form.new_home = row.Home
    /\ form.new_away = row.Away
    /\ form.new_status = row.Status
    /\ form.new_original_date = Str(row.OriginalDate)
    /\ form.new_comment # Str(row.Comment)

\* C22: a save that changes only the Comment of a stored record hands the
\* notifier the one triple ("Comment", old, new), adds one entry to the
\* record's trail and leaves the stored Week and Daycode as they were.
C22_CommentOnlyEdit ==
    [][\A s \in Sessions :
         Saves(s) =>
           \A i \in RowsWhere(games, run[s].game_num) :
              CommentOnly(run[s].form, games[i]) =>
                 /\ Len(run[s].changes_for_email) = 1
                 /\ run[s].changes_for_email[1][1] = "Comment"
                 /\ run[s].changes_for_email[1][2] = games[i].Comment
                 /\ run[s].changes_for_email[1][3] = run[s].form.new_comment
                 /\ Len(games'[i].game_audit_trail) =
                       Len(games[i].game_audit_trail) + 1
                 /\ games'[i].Week = games[i].Week
                 /\ games'[i].Daycode = games[i].Daycode]_vars

\* The user-editable fields in the form's order: the entry's name, the
\* stored column and the form's value.
UserFields ==
    <<[field |-> "Game Date", column |-> "GameDate", new |-> "new_game_date"],
      [field |-> "Field", column |-> "Field", new |-> "new_field"],
      [field |-> "Time", column |-> "Time", new |-> "new_time"],
      [field |-> "Home Team", column |-> "Home", new |-> "new_home"],
      [field |-> "Away Team", column |-> "Away", new |-> "new_away"],
      [field |-> "Status", column |-> "Status", new |-> "new_status"],
      [field |-> "Comment", column |-> "Comment", new |-> "new_comment"],
      [field |-> "Original Date", column |-> "OriginalDate",
       new |-> "new_original_date"]>>

\* (field, old, new) for every user field whose proposed value differs from
\* the stored one.
ProposedChanges(row, form) ==
    LET all == [k \in DOMAIN UserFields |->
                  <<UserFields[k].field, row[UserFields[k].column],
                    form[UserFields[k].new]>>]
    IN SelectSeq(all, LAMBDA t : t[2] # t[3])

\* C23: the triples a save hands to the notifier for the user fields are,
\* field by field, (field, stored value, proposed value) for exactly the
\* fields whose proposed value differs from the stored one, and the save's
\* entries name the same fields in the same order as its triples.
C23_DiffCorrect ==
    [][\A s \in Sessions :
         Saves(s) =>
           \A i \in RowsWhere(games, run[s].game_num) :
              /\ SelectSeq(run[s].changes_for_email,
                           LAMBDA t : t[1] \notin AutoFields)
                    = ProposedChanges(games[i], run[s].form)
              /\ Len(run[s].audit_entries) = Len(run[s].changes_for_email)
              /\ \A k \in DOMAIN run[s].audit_entries :
                    run[s].audit_entries[k].field =
                       run[s].changes_for_email[k][1]]_vars

\* The names of a save's auto-calculated entries, in their order.
AutoEntries(entries) ==
    LET auto == SelectSeq(entries, LAMBDA entry : entry.field \in AutoFields)
    IN [k \in DOMAIN auto |-> auto[k].field]

\* C24: a save whose computed (Week, Daycode) differs from the record's
\* stored pair adds two auto-calculated entries, one for Week and one for
\* Daycode; a save whose computed pair equals the stored pair adds none.
C24_DerivedEntries ==
    [][\A s \in Sessions :
         Saves(s) =>
           \A i \in RowsWhere(games, run[s].game_num) :
              AutoEntries(run[s].audit_entries) =
                 IF calculate_week_and_daycode(run[s].form.new_game_date)
                       # <<games[i].Week, games[i].Daycode>>
                   THEN <<"Week (auto-calculated)", "Daycode (auto-calculated)">>
                   ELSE <<>>]_vars

\* The fixed order of the entries of one save.
FieldOrder ==
    <<"Game Date", "Field", "Time", "Home Team", "Away Team", "Status",
      "Comment", "Original Date", "Week (auto-calculated)",
      "Daycode (auto-calculated)">>

Rank(field) == CHOOSE k \in DOMAIN FieldOrder : FieldOrder[k] = field

\* C25: the entries of one save stand in the fixed field order, the save
\* leaves them at the end of the record's trail, and the trail holds the
\* entries of the committed saves in the order the saves were committed.
C25_EntryOrder ==
    [][\A s \in Sessions :
         Saves(s) =>
           \A i \in RowsWhere(games, run[s].game_num) :
              LET entries == run[s].audit_entries
                  trail == games'[i].game_audit_trail
              IN /\ \A k \in DOMAIN entries :
                       /\ entries[k].field \in {FieldOrder[r] : r \in DOMAIN FieldOrder}
                       /\ k > 1 => Rank(entries[k - 1].field) < Rank(entries[k].field)
                 /\ Len(trail) >= Len(entries)
                 /\ SubSeq(trail, Len(trail) - Len(entries) + 1, Len(trail)) = entries
                 /\ IsSubsequence(trail, applied'[games[i].GameNum])]_vars

\* C25 witness: a trail in which a save's Game Date entry is followed by
\* its Week entry, and a later save's entry for a field that ranks before
\* Week comes after both.
C25_Witness ==
    \E i \in DOMAIN games :
       LET trail == games[i].game_audit_trail
       IN \E a, b, c \in DOMAIN trail :
            /\ a < b /\ b < c
            /\ trail[a].field = "Game Date"
            /\ trail[b].field = "Week (auto-calculated)"
            /\ Rank(trail[c].field) < Rank(trail[b].field)

\* C26: all the entries that one save appends carry the same timestamp.
C26_EntriesShareTimestamp ==
    [][\A s \in Sessions :
         Saves(s) =>
           \A j, k \in DOMAIN run[s].audit_entries :
              run[s].audit_entries[j].timestamp =
                 run[s].audit_entries[k].timestamp]_vars

\* The columns a save writes, each with the name its entry carries.
AuditedColumns ==
    {<<UserFields[k].column, UserFields[k].field>> : k \in DOMAIN UserFields}
    \cup {<<"Week", "Week (auto-calculated)">>,
          <<"Daycode", "Daycode (auto-calculated)">>}

\* C27: every column of the record that a save leaves with another value
\* than it had has an entry among the entries the save appended.
C27_EveryChangeAudited ==
    [][\A s \in Sessions :
         Saves(s) =>
           \A i \in RowsWhere(games, run[s].game_num) :
              \A c \in AuditedColumns :
                 games'[i][c[1]] # games[i][c[1]] =>
                    c[2] \in EntryFields(run[s].audit_entries)]_vars

\* C28: a game record has a non-empty audit trail exactly when its
\* last_updated is greater than 0.
C28_LogAndTimestampAgree ==
    \A i \in DOMAIN games :
       games[i].game_audit_trail # <<>> <=> games[i].last_updated > 0

\* The run of the Settings page that this step is, if it is one.
SettingsRun(s) == pages'[s] # pages[s] /\ pages'[s].body = "Settings"

\* The addresses among the form's texts that are valid.
ValidAddresses == {<<"a", "@", "b", ".", "c">>, <<"d", "@", "e", ".", "f">>}

\* A submitted form that the Settings page must refuse: the From address
\* is non-empty and invalid, or the To addresses are empty, end with a
\* comma or hold an invalid address.
Refused(from_address, to_addresses) ==
    LET from == strip(Chars(from_address))
        to == strip(Chars(to_addresses))
        parts == split(to, ",")
    IN \/ from # <<>> /\ from \notin ValidAddresses
       \/ to = <<>>
       \/ to[Len(to)] = ","
       \/ \E k \in DOMAIN parts : strip(parts[k]) \notin ValidAddresses

\* C30: a refused Settings form writes neither setting, the stored
\* email_to_addresses is never empty, and a save is reported as successful
\* only when both settings hold the submitted values.
C30_SettingsValidation ==
    [][\A s \in Sessions :
         SettingsRun(s) =>
           LET page == pages'[s]
               saved == page.outcome = "Settings saved successfully!"
           IN /\ Refused(page.from_address, page.to_addresses) =>
                    ~saved /\ settings' = ensure_settings_table
              /\ settings'.rows["email_to_addresses"] # ""
              /\ saved =>
                    /\ settings'.rows["email_from_address"] =
                          Text(strip(Chars(page.from_address)))
                    /\ settings'.rows["email_to_addresses"] =
                          Text(strip(Chars(page.to_addresses)))]_vars

\* A step in which the body of an admin page runs for session s: a step of
\* an Edit Game run, a run of the Data Query Tool, of the Settings page or
\* of the Recent Changes page.
BodyRuns(s) ==
    \/ run'[s] # run[s]
    \/ QueryRun(s)
    \/ SettingsRun(s)
    \/ history'[s] # history[s]

\* C29: a session starts unauthenticated; the body of an admin page runs
\* for it, and so the Edit Game write, the query and the settings write
\* happen, only while its admin_authenticated is true; the flag becomes
\* true only in a login run with the correct password and is false after a
\* logout.
C29_AdminGate ==
    /\ \A s \in Sessions : ~pages[s].admin_authenticated
    /\ [][\A s \in Sessions :
            /\ BodyRuns(s) => pages[s].admin_authenticated
            /\ (pages'[s].admin_authenticated /\ ~pages[s].admin_authenticated) =>
                  /\ pages'[s].body = "Admin Access Required"
                  /\ pages'[s].password = "wusarocks"
            /\ (pages'[s].body = "Logout" /\ pages'[s] # pages[s]) =>
                  ~pages'[s].admin_authenticated]_vars

\* C29 witness: session A logged in, saved a game and logged out; session
\* B has submitted a wrong password and is not authenticated.
C29_Witness ==
    /\ pages["A"].body = "Logout"
    /\ ~pages["A"].admin_authenticated
    /\ \E i \in DOMAIN games : games[i].last_updated > 0
    /\ pages["B"].outcome = "Incorrect password"
    /\ ~pages["B"].admin_authenticated

====
